---------------------------- MODULE Spec2Model ----------------------------
(***************************************************************************)
(* Release lifecycle of zed-stylelint-actions: the update path             *)
(* (update-lsp: check, build, commit, prerelease, branch and pull          *)
(* request), the promote path (publish-release, in its three variants),    *)
(* the keep-fresh path (rebase of the open update pull request) and the    *)
(* build-lsp committer, over the hosting platform's shared state           *)
(* (releases, pull requests, branch refs, trunk).                          *)
(*                                                                         *)
(* Every await on the hosting platform or on the remote is one step, so    *)
(* runs interleave exactly where the code can be interleaved.  Strings     *)
(* that the code only compares are strings; strings whose prefix the code  *)
(* tests (branch names, commit messages) are sequences of tokens with the  *)
(* tested prefix as the first token.                                       *)
(***************************************************************************)
EXTENDS Integers, Sequences, FiniteSets, TLC

VARIABLES
    releases,   \* the platform's releases: id, tag, name, body, prerelease, draft, assets
    nextRelease,\* id the platform gives the next release
    prs,        \* the platform's pull requests: number, branch, state, title, body
    nextPr,     \* number the platform gives the next pull request
    refs,       \* remote branch refs: branch name -> tip commit (NoCommit: no such ref)
    mainHead,   \* index of the trunk tip (the trunk is the chain 0..mainHead)
    declared,   \* tree at the trunk tip (extension.toml and lsp/)
    upstream,   \* latest upstream release: version, body
    pathsExist, \* whether every path the committer stages exists in the repository
    up,         \* update-path runs: run id -> local state of run()
    faults,     \* external-call failures injected so far
    deletes,    \* releases deleted by hand so far
    raced,      \* ghost: some run passed the in-flight check while another was in flight
    changelogMd,\* CHANGELOG.md at the trunk tip: readable, lines
    pub,        \* promote-path runs: run id -> local state of run()
    clone,      \* the clone the Change Committer is run in: head, worktree
    cc,         \* Change Committer runs in that clone: run id -> local state
    kp,         \* Rebase Keeper runs: run id -> local state of run()
    pushes      \* pushes to the pull request's branch by other actors so far

vars == <<releases, nextRelease, prs, nextPr, refs, mainHead, declared,
          upstream, pathsExist, up, faults, deletes, raced, changelogMd, pub,
          clone, cc, kp, pushes>>

\* what the update path never touches
outsideUpdate == <<changelogMd, pub, clone, cc, kp, pushes>>
\* what the promote path never touches
outsidePromote == <<prs, nextPr, refs, mainHead, declared, upstream,
                    pathsExist, up, deletes, raced, changelogMd,
                    clone, cc, kp, pushes>>
\* what the Change Committer never touches
outsideCommit == <<releases, nextRelease, prs, nextPr, refs, mainHead,
                   declared, upstream, pathsExist, up, deletes, raced,
                   changelogMd, pub, kp, pushes>>
\* what neither the Rebase Keeper nor the actors around it touch
outsideRebase == <<releases, nextRelease, prs, nextPr, declared, upstream,
                   pathsExist, up, deletes, raced, changelogMd, pub,
                   clone, cc>>

---------------------------------------------------------------------------
(* Bounds of the model *)

NRuns == 2          \* update-path runs
MaxFaults == 1      \* injected failures of external calls
MaxTrunk == 1       \* merges into the trunk
MaxDeletes == 1     \* releases deleted by hand
NPromotes == 2      \* promote-path runs
NCommitRuns == 2    \* Change Committer runs in one clone
NKeepers == 2       \* Rebase Keeper runs
MaxPushes == 1      \* pushes to the pull request's branch by other actors

Runs == 1..NRuns
Promotes == 1..NPromotes
CommitRuns == 1..NCommitRuns
Keepers == 1..NKeepers
Versions == {"1.2.0", "1.3.0", "1.4.0"}
InitialVersion == "1.2.0"
UpstreamVersions == {"1.2.0", "1.3.0"}
ManualVersions == {"", "1.4.0"}    \* "" : the input is not set

---------------------------------------------------------------------------
(* Names the code derives *)

BranchPrefix == "update-lsp-"
BranchName(version) == <<BranchPrefix, version>>
PrTitle(version) == <<"chore: update language server to", " v", version>>
PrBody(version, changelog, releaseUrl) ==
    [version |-> version, changelog |-> changelog, releaseUrl |-> releaseUrl]
ReleaseUrl(id) == <<"releases/", id>>
ReleaseName(version) == <<"v", version>>
TarballName(version) == "stylelint-language-server-v" \o version \o ".tar.gz"
Sha256Name(version) == "stylelint-language-server-v" \o version \o ".sha256"

\* Mutant of isUpdateLspBranch: the pattern is not anchored.
isUpdateLspBranch_unanchored(branchName) ==
    \E i \in 1..Len(branchName) : branchName[i] = BranchPrefix

isUpdateLspBranch(branchName) ==
    Len(branchName) >= 1 /\ branchName[1] = BranchPrefix

UpdateBranches == {BranchName(v) : v \in Versions}

---------------------------------------------------------------------------
(* Trees and commits.  A tree is what the paths the actions touch hold:    *)
(* extension.toml's version and lsp_required_version, and the version the  *)
(* lsp/ directory was built from (the build is reproducible, so the        *)
(* directory's content is a function of the version).  The trunk is        *)
(* linear; a commit is the trunk commit `base` (ahead = 0) or `ahead`      *)
(* commits on top of it; sha tells apart commits of different writers.     *)

Tree(version, lspRequired, lspDir) ==
    [version |-> version, lspRequired |-> lspRequired, lspDir |-> lspDir]
NoTree == Tree("", "", "")
NoCommit == [base |-> -1, ahead |-> 0, tree |-> NoTree, sha |-> 0,
             author |-> "", message |-> <<>>]
TrunkCommit(i, tree) == [base |-> i, ahead |-> 0, tree |-> tree, sha |-> 0,
                         author |-> "", message |-> <<>>]

\* git merge-base of a commit and the trunk commit m
MergeBase(c, m) == IF c.base <= m THEN c.base ELSE m

\* Mutant of FastForward: the plain push is accepted like a forced one.
FastForward_always(old, c) == TRUE

\* whether a plain (non-force) push of commit c moves a ref at `old`
FastForward(old, c) ==
    old = NoCommit \/ old = c \/ (old.ahead = 0 /\ old.base <= c.base)

---------------------------------------------------------------------------
(* Hosting platform *)

NoPr == [number |-> 0, branch |-> <<>>, headSha |-> NoCommit]
OpenPrs(P) == {p \in P : p.state = "open"}
OpenLspUpdatePrs(P) == {p \in OpenPrs(P) : isUpdateLspBranch(p.branch)}

findOpenLspUpdatePr(P, R) ==
    IF OpenLspUpdatePrs(P) = {} THEN NoPr
    ELSE LET p == CHOOSE p \in OpenLspUpdatePrs(P) :
                      \A q \in OpenLspUpdatePrs(P) : q.number <= p.number
         IN  [number |-> p.number, branch |-> p.branch, headSha |-> R[p.branch]]

\* repos.createRelease answers 422 (already_exists) when a published
\* release holds the tag.
ReleaseTagTaken(R, tag) == \E x \in R : x.tag = tag /\ ~x.draft

\* pulls.create answers 422 when an open pull request exists for the head
\* branch, and when the head branch holds no commit that the base lacks.
PullExists(P, branch) == \E p \in OpenPrs(P) : p.branch = branch

\* Mutant of PullsCreateRejected: a platform that accepts a second open
\* pull request for a head branch.
PullsCreateRejected_duplicates(P, R, branch) == R[branch].ahead = 0

PullsCreateRejected(P, R, branch) ==
    PullExists(P, branch) \/ R[branch].ahead = 0

\* Mutant of PullsList: the list is asked for closed pull requests.
PullsList_closed(P, branch) == {p \in P \ OpenPrs(P) : p.branch = branch}

\* pulls.list with state open, head and base
PullsList(P, branch) == {p \in OpenPrs(P) : p.branch = branch}

---------------------------------------------------------------------------
(* Update path: src/unnamed/part_003 *)

NullCheck == [null |-> TRUE, needed |-> FALSE, version |-> "", changelog |-> ""]

\* Mutant of checkForUpdate: the manual override is looked at before the
\* open pull request.
checkForUpdate_manualFirst(existingPr, manualVersion, currentVersion, latest) ==
    IF manualVersion # ""
    THEN [null |-> FALSE, needed |-> TRUE, version |-> manualVersion,
          changelog |-> "Manual update to v" \o manualVersion]
    ELSE IF existingPr.number # 0 THEN NullCheck
    ELSE IF latest.version = currentVersion
         THEN [null |-> FALSE, needed |-> FALSE, version |-> currentVersion,
               changelog |-> ""]
    ELSE [null |-> FALSE, needed |-> TRUE, version |-> latest.version,
          changelog |-> latest.body]

\* Mutant of checkForUpdate: upstream is asked before the manual override
\* is looked at.
checkForUpdate_lookupFirst(existingPr, manualVersion, currentVersion, latest) ==
    IF existingPr.number # 0 THEN NullCheck
    ELSE IF latest.version = currentVersion
         THEN [null |-> FALSE, needed |-> FALSE, version |-> currentVersion,
               changelog |-> ""]
    ELSE IF manualVersion # ""
         THEN [null |-> FALSE, needed |-> TRUE, version |-> manualVersion,
               changelog |-> "Manual update to v" \o manualVersion]
    ELSE [null |-> FALSE, needed |-> TRUE, version |-> latest.version,
          changelog |-> latest.body]

checkForUpdate(existingPr, manualVersion, currentVersion, latest) ==
    IF existingPr.number # 0 THEN NullCheck
    ELSE IF manualVersion # ""
         THEN [null |-> FALSE, needed |-> TRUE, version |-> manualVersion,
               changelog |-> "Manual update to v" \o manualVersion]
    ELSE IF latest.version = currentVersion
         THEN [null |-> FALSE, needed |-> FALSE, version |-> currentVersion,
               changelog |-> ""]
    ELSE [null |-> FALSE, needed |-> TRUE, version |-> latest.version,
          changelog |-> latest.body]

\* The upstream lookup is made only past the first two returns.
LooksUpstream(existingPr, manualVersion) ==
    existingPr.number = 0 /\ manualVersion = ""

\* The outputs a workflow reads from the step; one that setOutput was never
\* called for reads as empty.  The update path has no setOutput('reason').
NoOutputs == [updated |-> "", version |-> "", prNumber |-> 0,
              prUrl |-> <<>>, releaseUrl |-> <<>>, reason |-> <<>>]

IdleRun == [pc |-> "idle", manual |-> "", check |-> NullCheck,
            head |-> NoCommit, committed |-> FALSE, files |-> {},
            release |-> 0, branchExists |-> FALSE, existingPr |-> 0,
            out |-> NoOutputs, failed |-> FALSE,
            effects |-> <<>>, sawOpenPr |-> FALSE, lookedUp |-> FALSE,
            injected |-> FALSE, tagHeld |-> 0, prior |-> {}]

Version(r) == up[r].check.version
InFlight(r) == up[r].pc \notin {"idle", "done"}

Effect(r, e) == Append(up[r].effects, e)

\* catch (error) { setFailed(...) }: the run stops where it is
Fail(r, injected) ==
    [up[r] EXCEPT !.pc = "done", !.failed = TRUE,
                  !.injected = @ \/ injected]

CanFault == faults < MaxFaults


buildLsp(tree, version) == [tree EXCEPT !.lspDir = version]

\* Mutant of updateVersionFiles: the extension's own version is left alone.
updateVersionFiles_lspOnly(tree, version) ==
    [tree EXCEPT !.lspRequired = version]

updateVersionFiles(tree, version) ==
    [tree EXCEPT !.version = version, !.lspRequired = version]

AutomationIdentity == "github-actions[bot]"
CommitMessage(version) == <<"chore: update language server to", " v", version>>

\* git add <paths>: when a pathspec matches no file git stops (exit 128)
\* before it stages anything; the code ignores the return code.
GitAdd(index, worktree, exist) == IF exist THEN worktree ELSE index

commitChanges(head, worktree, exist, version, sha) ==
    LET index == GitAdd(head.tree, worktree, exist)
        exitCode == IF index = head.tree THEN 0 ELSE 1
    IN  IF exitCode = 0
        THEN [committed |-> FALSE, head |-> head]
        ELSE [committed |-> TRUE,
              head |-> [base |-> head.base, ahead |-> head.ahead + 1,
                        tree |-> index, sha |-> sha,
                        author |-> AutomationIdentity,
                        message |-> CommitMessage(version)]]

\* run, lines 323-343, with checkForUpdate
\* Runs are interchangeable: they start in the order of their ids.
run_checkForUpdate(r) ==
    /\ up[r].pc = "idle"
    /\ \A q \in Runs : q < r => up[q].pc # "idle"
    /\ \E manualVersion \in ManualVersions :
         LET existingPr == findOpenLspUpdatePr(prs, refs)
             check == checkForUpdate(existingPr, manualVersion,
                                     declared.lspRequired, upstream)
             started == [up[r] EXCEPT
                           !.manual = manualVersion,
                           !.sawOpenPr = (OpenLspUpdatePrs(prs) # {}),
                           !.lookedUp = LooksUpstream(existingPr, manualVersion),
                           !.prior = {q \in Runs : up[q].pc = "done"},
                           !.head = TrunkCommit(mainHead, declared)]
         IN  \/ /\ check.null
                /\ up' = [up EXCEPT ![r] =
                            [started EXCEPT !.pc = "done",
                                            !.out.updated = "false"]]
                /\ UNCHANGED <<faults, raced>>
             \/ /\ ~check.null
                /\ ~check.needed
                /\ up' = [up EXCEPT ![r] =
                            [started EXCEPT !.pc = "done", !.check = check,
                                            !.out.updated = "false",
                                            !.out.version = check.version]]
                /\ UNCHANGED <<faults, raced>>
             \/ /\ ~check.null
                /\ check.needed
                /\ up' = [up EXCEPT ![r] =
                            [started EXCEPT !.pc = "build", !.check = check]]
                /\ raced' = (raced \/ \E q \in Runs \ {r} : InFlight(q))
                /\ UNCHANGED faults
             \/ /\ CanFault      \* the lookup of pull requests or of upstream throws
                /\ up' = [up EXCEPT ![r] =
                            [started EXCEPT !.pc = "done", !.failed = TRUE,
                                            !.injected = TRUE]]
                /\ faults' = faults + 1
                /\ UNCHANGED raced
    /\ UNCHANGED outsideUpdate
    /\ UNCHANGED <<releases, nextRelease, prs, nextPr, refs, mainHead,
                   declared, upstream, pathsExist, deletes>>

\* Mutant of BuildFailure: the error of the build is logged and the run
\* goes on to the next step.
BuildFailure_swallowed(run) ==
    [run EXCEPT !.pc = "release", !.injected = TRUE,
                !.effects = Append(@, "buildFailed")]

\* buildLsp throws (a command exits non-zero, dist/ is missing, or no file
\* was copied to lsp/): the await in run rethrows into the catch
BuildFailure(run) ==
    [run EXCEPT !.pc = "done", !.failed = TRUE, !.injected = TRUE,
                !.effects = Append(@, "buildFailed")]

\* run, lines 348-355: buildLsp, updateVersionFiles, commitChanges, all of
\* them local to the runner
run_buildLsp_commitChanges(r) ==
    /\ up[r].pc = "build"
    /\ \/ LET worktree == updateVersionFiles(
                              buildLsp(up[r].head.tree, Version(r)), Version(r))
              c == commitChanges(up[r].head, worktree, pathsExist, Version(r), r)
          IN  /\ up' = [up EXCEPT ![r].pc = "release",
                                  ![r].head = c.head,
                                  ![r].committed = c.committed,
                                  ![r].effects =
                                      IF c.committed
                                      THEN up[r].effects \o <<"build", "commit">>
                                      ELSE Effect(r, "build")]
              /\ UNCHANGED faults
       \/ /\ CanFault      \* the clone or the build fails, or lsp/ is left empty
          /\ up' = [up EXCEPT ![r] = BuildFailure(up[r])]
          /\ faults' = faults + 1
    /\ UNCHANGED outsideUpdate
    /\ UNCHANGED <<releases, nextRelease, prs, nextPr, refs, mainHead,
                   declared, upstream, pathsExist, deletes, raced>>

HeldBy(R, tag) ==
    IF \E x \in R : x.tag = tag /\ x.prerelease
    THEN (CHOOSE x \in R : x.tag = tag /\ x.prerelease).id
    ELSE 0

\* createPrerelease, lines 185-208: tarball, checksum, repos.createRelease
createPrerelease_createRelease(r) ==
    /\ up[r].pc = "release"
    /\ LET packed == [up[r] EXCEPT
                        !.files = {TarballName(Version(r)), Sha256Name(Version(r))},
                        !.tagHeld = HeldBy(releases, Version(r))]
       IN  \/ /\ ~ReleaseTagTaken(releases, Version(r))
              /\ releases' = releases \cup
                    {[id |-> nextRelease, tag |-> Version(r),
                      name |-> ReleaseName(Version(r)),
                      body |-> <<<<"Prerelease for LSP v", Version(r)>>>>,
                      prerelease |-> TRUE, draft |-> FALSE, assets |-> {}]}
              /\ nextRelease' = nextRelease + 1
              /\ up' = [up EXCEPT ![r] =
                          [packed EXCEPT !.pc = "uploadTar",
                                         !.release = nextRelease,
                                         !.effects = Effect(r, "createRelease")]]
              /\ UNCHANGED faults
           \/ /\ ReleaseTagTaken(releases, Version(r))
              /\ up' = [up EXCEPT ![r] =
                          [packed EXCEPT !.pc = "done", !.failed = TRUE]]
              /\ UNCHANGED <<releases, nextRelease, faults>>
           \/ /\ CanFault
              /\ up' = [up EXCEPT ![r] =
                          [packed EXCEPT !.pc = "done", !.failed = TRUE,
                                         !.injected = TRUE]]
              /\ faults' = faults + 1
              /\ UNCHANGED <<releases, nextRelease>>
    /\ UNCHANGED outsideUpdate
    /\ UNCHANGED <<prs, nextPr, refs, mainHead, declared, upstream,
                   pathsExist, deletes, raced>>

ReleaseExists(R, id) == \E x \in R : x.id = id
WithAsset(R, id, name) ==
    {IF x.id = id THEN [x EXCEPT !.assets = @ \cup {name}] ELSE x : x \in R}

\* createPrerelease, lines 210-219
createPrerelease_uploadTarball(r) ==
    /\ up[r].pc = "uploadTar"
    /\ \/ /\ ReleaseExists(releases, up[r].release)
          /\ releases' = WithAsset(releases, up[r].release, TarballName(Version(r)))
          /\ up' = [up EXCEPT ![r].pc = "uploadSha",
                              ![r].effects = Effect(r, "uploadTarball")]
          /\ UNCHANGED faults
       \/ /\ ~ReleaseExists(releases, up[r].release)
          /\ up' = [up EXCEPT ![r] = Fail(r, FALSE)]
          /\ UNCHANGED <<releases, faults>>
       \/ /\ CanFault
          /\ up' = [up EXCEPT ![r] = Fail(r, TRUE)]
          /\ faults' = faults + 1
          /\ UNCHANGED releases
    /\ UNCHANGED outsideUpdate
    /\ UNCHANGED <<nextRelease, prs, nextPr, refs, mainHead, declared,
                   upstream, pathsExist, deletes, raced>>

\* createPrerelease, lines 221-236: second upload, then rm -f of both files
createPrerelease_uploadSha256(r) ==
    /\ up[r].pc = "uploadSha"
    /\ \/ /\ ReleaseExists(releases, up[r].release)
          /\ releases' = WithAsset(releases, up[r].release, Sha256Name(Version(r)))
          /\ up' = [up EXCEPT ![r].pc = "getRef",
                              ![r].files = {},
                              ![r].effects = Effect(r, "uploadSha256")]
          /\ UNCHANGED faults
       \/ /\ ~ReleaseExists(releases, up[r].release)
          /\ up' = [up EXCEPT ![r] = Fail(r, FALSE)]
          /\ UNCHANGED <<releases, faults>>
       \/ /\ CanFault
          /\ up' = [up EXCEPT ![r] = Fail(r, TRUE)]
          /\ faults' = faults + 1
          /\ UNCHANGED releases
    /\ UNCHANGED outsideUpdate
    /\ UNCHANGED <<nextRelease, prs, nextPr, refs, mainHead, declared,
                   upstream, pathsExist, deletes, raced>>

\* createPullRequest, lines 247-256: any error of git.getRef reads as "no branch"
createPullRequest_getRef(r) ==
    /\ up[r].pc = "getRef"
    /\ \/ /\ up' = [up EXCEPT ![r].pc = "push",
                              ![r].branchExists =
                                  (refs[BranchName(Version(r))] # NoCommit)]
          /\ UNCHANGED faults
       \/ /\ CanFault
          /\ up' = [up EXCEPT ![r].pc = "push", ![r].branchExists = FALSE,
                              ![r].injected = TRUE]
          /\ faults' = faults + 1
    /\ UNCHANGED outsideUpdate
    /\ UNCHANGED <<releases, nextRelease, prs, nextPr, refs, mainHead,
                   declared, upstream, pathsExist, deletes, raced>>

\* createPullRequest, lines 258-266: forced push to a branch seen to exist,
\* plain push of a new local branch otherwise
createPullRequest_push(r) ==
    /\ up[r].pc = "push"
    /\ LET branch == BranchName(Version(r))
       IN  \/ /\ up[r].branchExists \/ FastForward(refs[branch], up[r].head)
              /\ refs' = [refs EXCEPT ![branch] = up[r].head]
              /\ up' = [up EXCEPT ![r].pc = "listPrs",
                                  ![r].effects = Effect(r, "push")]
              /\ UNCHANGED faults
           \/ /\ ~up[r].branchExists
              /\ ~FastForward(refs[branch], up[r].head)
              /\ up' = [up EXCEPT ![r] = Fail(r, FALSE)]
              /\ UNCHANGED <<refs, faults>>
           \/ /\ CanFault
              /\ up' = [up EXCEPT ![r] = Fail(r, TRUE)]
              /\ faults' = faults + 1
              /\ UNCHANGED refs
    /\ UNCHANGED outsideUpdate
    /\ UNCHANGED <<releases, nextRelease, prs, nextPr, mainHead, declared,
                   upstream, pathsExist, deletes, raced>>

FirstPr(S) ==
    IF S = {} THEN 0
    ELSE (CHOOSE p \in S : \A q \in S : q.number <= p.number).number

\* createPullRequest, lines 284-291
createPullRequest_list(r) ==
    /\ up[r].pc = "listPrs"
    /\ \/ /\ up' = [up EXCEPT ![r].pc = "writePr",
                              ![r].existingPr =
                                  FirstPr(PullsList(prs, BranchName(Version(r))))]
          /\ UNCHANGED faults
       \/ /\ CanFault
          /\ up' = [up EXCEPT ![r] = Fail(r, TRUE)]
          /\ faults' = faults + 1
    /\ UNCHANGED outsideUpdate
    /\ UNCHANGED <<releases, nextRelease, prs, nextPr, refs, mainHead,
                   declared, upstream, pathsExist, deletes, raced>>

Finished(r, number) ==
    [up[r] EXCEPT !.pc = "done",
                  !.out = [NoOutputs EXCEPT
                             !.updated = "true", !.version = Version(r),
                             !.prNumber = number, !.prUrl = <<"pull/", number>>,
                             !.releaseUrl = ReleaseUrl(up[r].release)]]

\* createPullRequest, lines 293-318, and run, lines 363-369
createPullRequest_write(r) ==
    /\ up[r].pc = "writePr"
    /\ LET branch == BranchName(Version(r))
           title == PrTitle(Version(r))
           body == PrBody(Version(r), up[r].check.changelog,
                          ReleaseUrl(up[r].release))
       IN  \/ /\ up[r].existingPr # 0      \* pulls.update
              /\ prs' = {IF p.number = up[r].existingPr
                         THEN [p EXCEPT !.title = title, !.body = body]
                         ELSE p : p \in prs}
              /\ up' = [up EXCEPT ![r] =
                          [Finished(r, up[r].existingPr) EXCEPT
                              !.effects = Effect(r, "updatePr")]]
              /\ UNCHANGED <<nextPr, faults>>
           \/ /\ up[r].existingPr = 0      \* pulls.create
              /\ ~PullsCreateRejected(prs, refs, branch)
              /\ prs' = prs \cup {[number |-> nextPr, branch |-> branch,
                                   state |-> "open", title |-> title,
                                   body |-> body]}
              /\ nextPr' = nextPr + 1
              /\ up' = [up EXCEPT ![r] =
                          [Finished(r, nextPr) EXCEPT
                              !.effects = Effect(r, "createPr")]]
              /\ UNCHANGED faults
           \/ /\ up[r].existingPr = 0
              /\ PullsCreateRejected(prs, refs, branch)
              /\ up' = [up EXCEPT ![r] = Fail(r, FALSE)]
              /\ UNCHANGED <<prs, nextPr, faults>>
           \/ /\ CanFault
              /\ up' = [up EXCEPT ![r] = Fail(r, TRUE)]
              /\ faults' = faults + 1
              /\ UNCHANGED <<prs, nextPr>>
    /\ UNCHANGED outsideUpdate
    /\ UNCHANGED <<releases, nextRelease, refs, mainHead, declared,
                   upstream, pathsExist, deletes, raced>>

---------------------------------------------------------------------------
(* The maintainer: merges the open update pull request, deletes a release *)

MergePr ==
    /\ mainHead < MaxTrunk
    /\ \E p \in OpenLspUpdatePrs(prs) :
         /\ prs' = (prs \ {p}) \cup {[p EXCEPT !.state = "merged"]}
         /\ declared' = refs[p.branch].tree
    /\ mainHead' = mainHead + 1
    /\ UNCHANGED outsideUpdate
    /\ UNCHANGED <<releases, nextRelease, nextPr, refs, upstream,
                   pathsExist, up, faults, deletes, raced>>

DeleteRelease ==
    /\ deletes < MaxDeletes
    /\ \E x \in releases : releases' = releases \ {x}
    /\ deletes' = deletes + 1
    /\ UNCHANGED outsideUpdate
    /\ UNCHANGED <<nextRelease, prs, nextPr, refs, mainHead, declared,
                   upstream, pathsExist, up, faults, raced>>

---------------------------------------------------------------------------
(* Change Committer: commitChanges of src/unnamed/part_003 and run of      *)
(* src/build-lsp/index.ts, run one after the other in one clone            *)

Committers == {"update-lsp", "build-lsp"}
GitUserNames == {AutomationIdentity, "release-bot"}

NoClone == [committer |-> "", gitUserName |-> "", head |-> NoCommit,
            worktree |-> NoTree]
IdleCommit == [pc |-> "idle", version |-> "", changed |-> FALSE,
               committed |-> "", made |-> 0, failed |-> FALSE]

\* build-lsp run, lines 18-35: git add lspPath, git status --porcelain
\* lspPath, git commit
buildLsp_commit(head, worktree, gitUserName, version, sha) ==
    LET index == [head.tree EXCEPT !.lspDir = worktree.lspDir]
        gitStatus == index # head.tree
    IN  IF ~gitStatus
        THEN [committed |-> FALSE, head |-> head]
        ELSE [committed |-> TRUE,
              head |-> [base |-> head.base, ahead |-> head.ahead + 1,
                        tree |-> index, sha |-> sha,
                        author |-> gitUserName,
                        message |-> CommitMessage(version)]]

\* the build and, in update-lsp, the manifest edits: what the committer finds
committer_build(i) ==
    /\ cc[i].pc = "idle"
    /\ \A j \in CommitRuns : j < i => cc[j].pc = "done"
    /\ \E version \in Versions :
         \/ LET built == buildLsp(clone.worktree, version)
                worktree == IF clone.committer = "update-lsp"
                            THEN updateVersionFiles(built, version)
                            ELSE built
            IN  /\ clone' = [clone EXCEPT !.worktree = worktree]
                /\ cc' = [cc EXCEPT ![i].pc = "commit",
                                    ![i].version = version,
                                    ![i].changed = (worktree # clone.head.tree)]
                /\ UNCHANGED faults
         \/ /\ CanFault      \* the build fails or leaves lsp/ empty
            /\ cc' = [cc EXCEPT ![i].pc = "done", ![i].version = version,
                                ![i].failed = TRUE]
            /\ faults' = faults + 1
            /\ UNCHANGED clone
    /\ UNCHANGED outsideCommit

committer_commit(i) ==
    /\ cc[i].pc = "commit"
    /\ LET c == IF clone.committer = "update-lsp"
                THEN commitChanges(clone.head, clone.worktree, pathsExist,
                                   cc[i].version, i)
                ELSE buildLsp_commit(clone.head, clone.worktree,
                                     clone.gitUserName, cc[i].version, i)
       IN  /\ clone' = [clone EXCEPT !.head = c.head]
           /\ cc' = [cc EXCEPT
                       ![i].pc = "done",
                       ![i].committed = IF c.committed THEN "true" ELSE "false",
                       ![i].made = c.head.ahead - clone.head.ahead]
    /\ UNCHANGED faults
    /\ UNCHANGED outsideCommit

---------------------------------------------------------------------------
(* Rebase Keeper: src/unnamed/part_001.  The clone of a run holds the      *)
(* remote's branches as they were when the run started.                    *)

ConflictMessage == "Rebase failed due to conflicts - manual intervention needed"
PushMessage == "Failed to push rebased branch - branch may have been updated"

NoKeeperOutputs == [found |-> "", prNumber |-> 0, branch |-> <<>>,
                    rebased |-> "", error |-> ""]
IdleKeeper == [pc |-> "idle", originMain |-> -1, tracking |-> <<>>,
               pr |-> NoPr, mainHead |-> -1, mergeBase |-> -1,
               head |-> NoCommit, out |-> NoKeeperOutputs,
               failed |-> FALSE, injected |-> FALSE, effects |-> <<>>]

KeeperEffect(k, e) == Append(kp[k].effects, e)
\* Mutant of KeeperFail: the catch reports the failure and no outputs.
KeeperFail_silent(k, injected) ==
    [kp[k] EXCEPT !.pc = "done", !.failed = TRUE,
                  !.injected = @ \/ injected]

\* catch (error): setFailed, rebased=false, error=<message>
KeeperFail(k, injected) ==
    [kp[k] EXCEPT !.pc = "done", !.failed = TRUE,
                  !.injected = @ \/ injected,
                  !.out.rebased = "false", !.out.error = "error"]

\* Mutant of UpToDate: the merge base is compared with the branch tip.
UpToDate_againstTip(mergeBase, mainHeadSha, headSha) ==
    mergeBase = headSha.base /\ headSha.ahead = 0

\* lines 58-62: mergeBase === mainHead
UpToDate(mergeBase, mainHeadSha, headSha) == mergeBase = mainHeadSha

\* Mutant of Rebased: the commits are rewritten on their old base.
Rebased_inPlace(c, onto, sha) == [c EXCEPT !.sha = sha]

\* git rebase origin/main <headSha>, when the replay succeeds
Rebased(c, onto, sha) == [c EXCEPT !.base = onto, !.sha = sha]

\* Mutant of AbortRebase: the return after the warning is missing.
AbortRebase_goesOn(keeper) ==
    [keeper EXCEPT !.pc = "push",
                   !.effects = keeper.effects \o <<"rebase", "abort">>,
                   !.out.rebased = "false",
                   !.out.error = ConflictMessage]

\* lines 70-81: git rebase --abort, warning, rebased=false, error, return
AbortRebase(keeper) ==
    [keeper EXCEPT !.pc = "done",
                   !.effects = keeper.effects \o <<"rebase", "abort">>,
                   !.out.rebased = "false",
                   !.out.error = ConflictMessage]

\* Mutant of PushRefspec: the push names a fixed branch.
PushRefspec_fixed(pr) == BranchName(InitialVersion)

\* line 85: HEAD:${pr.branch}
PushRefspec(pr) == pr.branch

\* Mutant of LeaseHolds: the push is a plain --force.
LeaseHolds_force(remote, expected) == TRUE

\* line 85: --force-with-lease; the remote ref must be where the clone's
\* remote-tracking ref is
LeaseHolds(remote, expected) == remote = expected

\* lines 12-19: git config, git fetch origin main
keeper_fetch(k) ==
    /\ kp[k].pc = "idle"
    /\ \A j \in Keepers : j < k => kp[j].pc # "idle"
    /\ \/ /\ kp' = [kp EXCEPT ![k].pc = "find",
                              ![k].originMain = mainHead,
                              ![k].tracking = refs]
          /\ UNCHANGED faults
       \/ /\ CanFault
          /\ kp' = [kp EXCEPT ![k] = KeeperFail(k, TRUE)]
          /\ faults' = faults + 1
    /\ UNCHANGED <<refs, mainHead, pushes>>
    /\ UNCHANGED outsideRebase

\* lines 21-35: findOpenLspUpdatePr
keeper_findOpenLspUpdatePr(k) ==
    /\ kp[k].pc = "find"
    /\ LET pr == findOpenLspUpdatePr(prs, refs)
       IN  \/ /\ pr = NoPr
              /\ kp' = [kp EXCEPT ![k].pc = "done",
                                  ![k].out.found = "false",
                                  ![k].out.rebased = "false"]
              /\ UNCHANGED faults
           \/ /\ pr # NoPr
              /\ kp' = [kp EXCEPT ![k].pc = "check",
                                  ![k].pr = pr,
                                  ![k].out.found = "true",
                                  ![k].out.prNumber = pr.number,
                                  ![k].out.branch = pr.branch]
              /\ UNCHANGED faults
           \/ /\ CanFault
              /\ kp' = [kp EXCEPT ![k] = KeeperFail(k, TRUE)]
              /\ faults' = faults + 1
    /\ UNCHANGED <<refs, mainHead, pushes>>
    /\ UNCHANGED outsideRebase

\* lines 37-62: git rev-parse origin/main, git merge-base; merge-base exits
\* with an error, and exec throws, when the clone does not hold the commit
keeper_mergeBase(k) ==
    /\ kp[k].pc = "check"
    /\ LET headSha == kp[k].pr.headSha
           mainHeadSha == kp[k].originMain
           mergeBase == MergeBase(headSha, mainHeadSha)
           read == [kp[k] EXCEPT !.mainHead = mainHeadSha]
       IN  \/ /\ headSha # kp[k].tracking[kp[k].pr.branch]
              /\ kp' = [kp EXCEPT ![k] =
                          [read EXCEPT !.pc = "done", !.failed = TRUE,
                                       !.out.rebased = "false",
                                       !.out.error = "error"]]
           \/ /\ headSha = kp[k].tracking[kp[k].pr.branch]
              /\ UpToDate(mergeBase, mainHeadSha, headSha)
              /\ kp' = [kp EXCEPT ![k] =
                          [read EXCEPT !.pc = "done",
                                       !.mergeBase = mergeBase,
                                       !.out.rebased = "false"]]
           \/ /\ headSha = kp[k].tracking[kp[k].pr.branch]
              /\ ~UpToDate(mergeBase, mainHeadSha, headSha)
              /\ kp' = [kp EXCEPT ![k] =
                          [read EXCEPT !.pc = "rebase",
                                       !.mergeBase = mergeBase]]
    /\ UNCHANGED <<refs, mainHead, pushes, faults>>
    /\ UNCHANGED outsideRebase

\* lines 66-81: git rebase origin/main <headSha>, git rebase --abort
keeper_rebase(k) ==
    /\ kp[k].pc = "rebase"
    /\ \E rebaseExitCode \in {0, 1} :
         \/ /\ rebaseExitCode # 0
            /\ kp' = [kp EXCEPT ![k] = AbortRebase(kp[k])]
         \/ /\ rebaseExitCode = 0
            /\ kp' = [kp EXCEPT
                        ![k].pc = "push",
                        ![k].effects = KeeperEffect(k, "rebase"),
                        ![k].head = Rebased(kp[k].pr.headSha,
                                            kp[k].originMain, 10 + k)]
    /\ UNCHANGED <<refs, mainHead, pushes, faults>>
    /\ UNCHANGED outsideRebase

\* lines 83-100: git push --force-with-lease origin HEAD:<branch>; the lease
\* is the clone's view of the branch
keeper_push(k) ==
    /\ kp[k].pc = "push"
    /\ LET branch == PushRefspec(kp[k].pr)
           rejected == [kp[k] EXCEPT !.pc = "done",
                                     !.effects = KeeperEffect(k, "pushRejected"),
                                     !.out.rebased = "false",
                                     !.out.error = PushMessage]
       IN  \/ /\ LeaseHolds(refs[branch], kp[k].tracking[branch])
              /\ refs' = [refs EXCEPT ![branch] = kp[k].head]
              /\ kp' = [kp EXCEPT ![k].pc = "done",
                                  ![k].effects = KeeperEffect(k, "push"),
                                  ![k].out.rebased = "true",
                                  ![k].out.error = ""]
              /\ UNCHANGED faults
           \/ /\ ~LeaseHolds(refs[branch], kp[k].tracking[branch])
              /\ kp' = [kp EXCEPT ![k] = rejected]
              /\ UNCHANGED <<refs, faults>>
           \/ /\ CanFault      \* the remote cannot be reached
              /\ kp' = [kp EXCEPT ![k] = [rejected EXCEPT !.injected = TRUE]]
              /\ faults' = faults + 1
              /\ UNCHANGED refs
    /\ UNCHANGED <<mainHead, pushes>>
    /\ UNCHANGED outsideRebase

\* someone pushes to the trunk
TrunkAdvance ==
    /\ mainHead < MaxTrunk
    /\ mainHead' = mainHead + 1
    /\ UNCHANGED <<refs, pushes, faults, kp>>
    /\ UNCHANGED outsideRebase

\* someone pushes one more commit to the branch of the open pull request
ExternalPush ==
    /\ pushes < MaxPushes
    /\ \E p \in OpenLspUpdatePrs(prs) :
         refs' = [refs EXCEPT ![p.branch] =
                    [@ EXCEPT !.ahead = @ + 1, !.sha = 20 + pushes,
                              !.author = "alice",
                              !.message = <<"fix: typo">>]]
    /\ pushes' = pushes + 1
    /\ UNCHANGED <<mainHead, faults, kp>>
    /\ UNCHANGED outsideRebase

---------------------------------------------------------------------------
(* Promote path: src/publish-release/index.ts (two variants of run, one    *)
(* behind the commit gate, one behind the event gate) and                  *)
(* src/unnamed/part_000 (the variant that builds from scratch)             *)

NoRelease == [id |-> 0, tag |-> ""]

\* Mutant of findPrerelease: the release is looked up by its tag alone.
findPrerelease_byTag(R, version) ==
    IF \E x \in R : x.tag = version
    THEN LET x == CHOOSE x \in R : x.tag = version /\
                      \A y \in R : y.tag = version => y.id <= x.id
         IN  [id |-> x.id, tag |-> x.tag]
    ELSE NoRelease

\* listReleases gives the newest release first; find takes the first match
findPrerelease(R, version) ==
    LET match == {x \in R : (x.prerelease \/ x.draft) /\ x.tag = version}
    IN  IF match = {} THEN NoRelease
        ELSE LET x == CHOOSE x \in match : \A y \in match : y.id <= x.id
             IN  [id |-> x.id, tag |-> x.tag]

BodyLineCap == 20
\* Mutant of IsHeading: a heading of any level starts a section.
IsHeading_anyLevel(line) == Len(line) >= 1 /\ line[1] \in {"## ", "### "}

IsHeading(line) == Len(line) >= 1 /\ line[1] = "## "
IsBlank(line) == \A i \in 1..Len(line) : line[i] \in {"", " "}

RECURSIVE ScanChangelog(_, _, _, _)
ScanChangelog(lines, i, inSection, bodyLines) ==
    IF i > Len(lines) THEN bodyLines
    ELSE IF IsHeading(lines[i])
         THEN IF inSection THEN bodyLines
              ELSE ScanChangelog(lines, i + 1, TRUE, bodyLines)
    ELSE IF inSection
         THEN IF Len(bodyLines) + 1 >= BodyLineCap
              THEN Append(bodyLines, lines[i])
              ELSE ScanChangelog(lines, i + 1, inSection,
                                 Append(bodyLines, lines[i]))
    ELSE ScanChangelog(lines, i + 1, inSection, bodyLines)

IsSpace(token) == token \in {"", " "}

RECURSIVE StripLeft(_)
StripLeft(line) ==
    IF line # <<>> /\ IsSpace(Head(line)) THEN StripLeft(Tail(line)) ELSE line

RECURSIVE StripRight(_)
StripRight(line) ==
    IF line # <<>> /\ IsSpace(line[Len(line)])
    THEN StripRight(SubSeq(line, 1, Len(line) - 1))
    ELSE line

RECURSIVE TrimBlankLines(_)
TrimBlankLines(ls) ==
    IF ls = <<>> THEN ls
    ELSE IF IsBlank(Head(ls)) THEN TrimBlankLines(Tail(ls))
    ELSE IF IsBlank(ls[Len(ls)]) THEN TrimBlankLines(SubSeq(ls, 1, Len(ls) - 1))
    ELSE ls

\* String.trim of the joined lines: the blank lines at both ends go, and
\* so does the white space before the first and after the last character
TrimLines(ls) ==
    LET kept == TrimBlankLines(ls)
    IN  [i \in 1..Len(kept) |->
            LET left == IF i = 1 THEN StripLeft(kept[i]) ELSE kept[i]
            IN  IF i = Len(kept) THEN StripRight(left) ELSE left]

FallbackBody(version) == <<<<"Release v", version>>>>

getReleaseBody(doc, version) ==
    IF ~doc.readable THEN FallbackBody(version)
    ELSE LET body == TrimLines(ScanChangelog(doc.lines, 1, FALSE, <<>>))
         IN  IF body = <<>> THEN FallbackBody(version) ELSE body

NoChangelog == [readable |-> FALSE, lines |-> <<>>]
Changelogs ==
    {NoChangelog,
     [readable |-> TRUE, lines |-> <<>>],
     [readable |-> TRUE,
      lines |-> << <<"# Changelog">>, <<"## ", "[1.3.0]">>, <<"">>,
                   <<"- new server">>, <<"## ", "[1.2.0]">>, <<"- old">> >>]}

MessagePrefix == "chore: update language server to"
StartsWith(message, prefix) == Len(message) >= 1 /\ message[1] = prefix
Contains(text, part) == \E i \in 1..Len(text) : text[i] = part

AuthorReason(author) ==
    <<"Skipping: Commit author is '", author,
      "', expected 'github-actions[bot]'">>
MessageReason == <<"Skipping: Commit message doesn't match LSP update pattern">>

verifyLspUpdateCommit(author, message) ==
    IF author # AutomationIdentity
    THEN [isValid |-> FALSE, message |-> AuthorReason(author)]
    ELSE IF ~StartsWith(message, MessagePrefix)
    THEN [isValid |-> FALSE, message |-> MessageReason]
    ELSE [isValid |-> TRUE, message |-> <<"Commit verified as LSP update">>]

Authors == {AutomationIdentity, "alice"}
Messages == {CommitMessage("1.3.0"), <<"fix: typo">>,
             <<"Merge pull request #7 from ", "update-lsp-", "1.3.0">>}
Events == {"pull_request", "workflow_dispatch", "push"}
HeadRefs == {BranchName("1.3.0"), <<"feature/", "update-lsp-", "1.3.0">>, <<>>}
\* context.payload.pull_request: present on pull_request events only; the
\* head ref is read from a merged pull request only
Payloads ==
    {[pullRequest |-> FALSE, merged |-> FALSE, headRef |-> <<>>],
     [pullRequest |-> TRUE, merged |-> FALSE, headRef |-> <<>>]}
    \cup {[pullRequest |-> TRUE, merged |-> TRUE, headRef |-> h] : h \in HeadRefs}
Variants == {"from-scratch", "commit-gate", "event-gate"}

NoPubOutputs == [skipped |-> "", reason |-> <<>>, promoted |-> "",
                 releaseId |-> 0]

IdlePub == [pc |-> "idle", variant |-> "", author |-> "", message |-> <<>>,
            event |-> "", merged |-> FALSE, headRef |-> <<>>,
            version |-> "", lspVersion |-> "", body |-> <<>>,
            found |-> NoRelease, seen |-> {}, release |-> 0, files |-> {},
            out |-> NoPubOutputs, failed |-> FALSE, injected |-> FALSE,
            effects |-> <<>>]

PubEffect(k, e) == Append(pub[k].effects, e)
PubFail(k, injected) ==
    [pub[k] EXCEPT !.pc = "done", !.failed = TRUE, !.injected = @ \/ injected]

\* index.ts run, lines 190-215: the commit gate
publish_verifyLspUpdateCommit(k) ==
    /\ pub[k].pc = "idle"
    /\ pub[k].variant = "commit-gate"
    /\ \A j \in Promotes : j < k => pub[j].pc # "idle"
    /\ \E author \in Authors, message \in Messages :
         LET verification == verifyLspUpdateCommit(author, message)
             started == [pub[k] EXCEPT !.author = author, !.message = message]
         IN  \/ /\ ~verification.isValid
                /\ pub' = [pub EXCEPT ![k] =
                             [started EXCEPT !.pc = "done",
                                             !.out.skipped = "true",
                                             !.out.reason = verification.message]]
                /\ UNCHANGED faults
             \/ /\ verification.isValid
                /\ pub' = [pub EXCEPT ![k] =
                             [started EXCEPT !.pc = "find",
                                             !.version = declared.version,
                                             !.lspVersion = declared.lspRequired]]
                /\ UNCHANGED faults
             \/ /\ CanFault      \* repos.getCommit throws
                /\ pub' = [pub EXCEPT ![k] =
                             [started EXCEPT !.pc = "done", !.failed = TRUE,
                                             !.injected = TRUE]]
                /\ faults' = faults + 1
    /\ UNCHANGED <<releases, nextRelease>>
    /\ UNCHANGED outsidePromote

\* index.ts run, lines 336-376: the event gate
publish_eventGate(k) ==
    /\ pub[k].pc = "idle"
    /\ pub[k].variant = "event-gate"
    /\ \A j \in Promotes : j < k => pub[j].pc # "idle"
    /\ \E eventName \in Events, payload \in Payloads :
         LET merged == payload.merged
             headBranch == payload.headRef
             started == [pub[k] EXCEPT !.event = eventName,
                                       !.merged = merged,
                                       !.headRef = headBranch]
             skip(reason) == [started EXCEPT !.pc = "done",
                                             !.out.skipped = "true",
                                             !.out.reason = reason]
             pass == [started EXCEPT !.pc = "find",
                                     !.version = declared.version,
                                     !.lspVersion = declared.lspRequired]
         IN  /\ (eventName = "pull_request") = payload.pullRequest
             /\ \/ /\ eventName = "pull_request"
                   /\ ~merged
                   /\ pub' = [pub EXCEPT ![k] = skip(<<"PR was not merged">>)]
                \/ /\ eventName = "pull_request"
                   /\ merged
                   /\ ~isUpdateLspBranch(headBranch)
                   /\ pub' = [pub EXCEPT ![k] =
                                skip(<<"Not an update-lsp-* branch: ">> \o headBranch)]
                \/ /\ eventName = "pull_request"
                   /\ merged
                   /\ isUpdateLspBranch(headBranch)
                   /\ pub' = [pub EXCEPT ![k] = pass]
                \/ /\ eventName = "workflow_dispatch"
                   /\ pub' = [pub EXCEPT ![k] = pass]
                \/ /\ eventName \notin {"pull_request", "workflow_dispatch"}
                   /\ pub' = [pub EXCEPT ![k] =
                                skip(<<"Unsupported event: ", eventName>>)]
    /\ UNCHANGED <<releases, nextRelease, faults>>
    /\ UNCHANGED outsidePromote

\* part_000 run, lines 151-164: no gate; the body is read before the lookup
publish_start(k) ==
    /\ pub[k].pc = "idle"
    /\ pub[k].variant = "from-scratch"
    /\ \A j \in Promotes : j < k => pub[j].pc # "idle"
    /\ pub' = [pub EXCEPT ![k] =
                 [pub[k] EXCEPT
                     !.pc = "find",
                     !.version = declared.version,
                     !.lspVersion = declared.lspRequired,
                     !.body = getReleaseBody(changelogMd, declared.version)]]
    /\ UNCHANGED <<releases, nextRelease, faults>>
    /\ UNCHANGED outsidePromote

\* findPrerelease (repos.listReleases) and what each run does with a miss:
\* index.ts lines 218-228 and 378-387, part_000 lines 167-178
publish_findPrerelease(k) ==
    /\ pub[k].pc = "find"
    /\ LET prerelease == findPrerelease(releases, pub[k].version)
           looked == [pub[k] EXCEPT
                         !.found = prerelease,
                         !.seen = {x \in releases : x.id = prerelease.id},
                         !.effects = PubEffect(k, "listReleases")]
       IN  \/ /\ prerelease # NoRelease
              /\ pub' = [pub EXCEPT ![k] =
                           [looked EXCEPT
                               !.pc = "promote",
                               !.body = getReleaseBody(changelogMd, pub[k].version)]]
              /\ UNCHANGED faults
           \/ /\ prerelease = NoRelease
              /\ pub[k].variant = "from-scratch"
              /\ pub' = [pub EXCEPT ![k] = [looked EXCEPT !.pc = "build"]]
              /\ UNCHANGED faults
           \/ /\ prerelease = NoRelease
              /\ pub[k].variant # "from-scratch"
              /\ pub' = [pub EXCEPT ![k] =
                           [looked EXCEPT
                               !.pc = "done", !.out.skipped = "true",
                               !.out.reason =
                                   <<"No prerelease found for this version">>]]
              /\ UNCHANGED faults
           \/ /\ CanFault
              /\ pub' = [pub EXCEPT ![k] = PubFail(k, TRUE)]
              /\ faults' = faults + 1
    /\ UNCHANGED <<releases, nextRelease>>
    /\ UNCHANGED outsidePromote

\* promotePrerelease (repos.updateRelease) and the outputs of run
publish_promotePrerelease(k) ==
    /\ pub[k].pc = "promote"
    /\ \/ /\ ReleaseExists(releases, pub[k].found.id)
          /\ releases' =
                {IF x.id = pub[k].found.id
                 THEN [x EXCEPT !.name = ReleaseName(pub[k].version),
                                !.body = pub[k].body,
                                !.draft = FALSE, !.prerelease = FALSE]
                 ELSE x : x \in releases}
          /\ pub' = [pub EXCEPT ![k] =
                       [pub[k] EXCEPT
                           !.pc = "done",
                           !.release = pub[k].found.id,
                           !.effects = PubEffect(k, "updateRelease"),
                           !.out = [skipped |->
                                        IF pub[k].variant = "from-scratch"
                                        THEN "" ELSE "false",
                                    reason |-> <<>>,
                                    promoted |-> "true",
                                    releaseId |-> pub[k].found.id]]]
          /\ UNCHANGED faults
       \/ /\ ~ReleaseExists(releases, pub[k].found.id)
          /\ pub' = [pub EXCEPT ![k] = PubFail(k, FALSE)]
          /\ UNCHANGED <<releases, faults>>
       \/ /\ CanFault
          /\ pub' = [pub EXCEPT ![k] = PubFail(k, TRUE)]
          /\ faults' = faults + 1
          /\ UNCHANGED releases
    /\ UNCHANGED nextRelease
    /\ UNCHANGED outsidePromote

\* createReleaseFromScratch, lines 90-102: buildLsp, tarball, checksum
createReleaseFromScratch_buildLsp(k) ==
    /\ pub[k].pc = "build"
    /\ \/ /\ pub' = [pub EXCEPT
                       ![k].pc = "create",
                       ![k].files = {TarballName(pub[k].lspVersion),
                                     Sha256Name(pub[k].lspVersion), "lsp"},
                       ![k].effects = PubEffect(k, "build")]
          /\ UNCHANGED faults
       \/ /\ CanFault
          /\ pub' = [pub EXCEPT ![k] = PubFail(k, TRUE)]
          /\ faults' = faults + 1
    /\ UNCHANGED <<releases, nextRelease>>
    /\ UNCHANGED outsidePromote

\* createReleaseFromScratch, lines 104-115: repos.createRelease, stable
createReleaseFromScratch_createRelease(k) ==
    /\ pub[k].pc = "create"
    /\ \/ /\ ~ReleaseTagTaken(releases, pub[k].version)
          /\ releases' = releases \cup
                {[id |-> nextRelease, tag |-> pub[k].version,
                  name |-> ReleaseName(pub[k].version), body |-> pub[k].body,
                  prerelease |-> FALSE, draft |-> FALSE, assets |-> {}]}
          /\ nextRelease' = nextRelease + 1
          /\ pub' = [pub EXCEPT ![k].pc = "uploadTar",
                                ![k].release = nextRelease,
                                ![k].effects = PubEffect(k, "createRelease")]
          /\ UNCHANGED faults
       \/ /\ ReleaseTagTaken(releases, pub[k].version)
          /\ pub' = [pub EXCEPT ![k] = PubFail(k, FALSE)]
          /\ UNCHANGED <<releases, nextRelease, faults>>
       \/ /\ CanFault
          /\ pub' = [pub EXCEPT ![k] = PubFail(k, TRUE)]
          /\ faults' = faults + 1
          /\ UNCHANGED <<releases, nextRelease>>
    /\ UNCHANGED outsidePromote

\* createReleaseFromScratch, lines 117-127
createReleaseFromScratch_uploadTarball(k) ==
    /\ pub[k].pc = "uploadTar"
    /\ \/ /\ ReleaseExists(releases, pub[k].release)
          /\ releases' = WithAsset(releases, pub[k].release,
                                   TarballName(pub[k].lspVersion))
          /\ pub' = [pub EXCEPT ![k].pc = "uploadSha",
                                ![k].effects = PubEffect(k, "uploadTarball")]
          /\ UNCHANGED faults
       \/ /\ CanFault
          /\ pub' = [pub EXCEPT ![k] = PubFail(k, TRUE)]
          /\ faults' = faults + 1
          /\ UNCHANGED releases
    /\ UNCHANGED nextRelease
    /\ UNCHANGED outsidePromote

\* createReleaseFromScratch, lines 129-146, and the outputs of run
createReleaseFromScratch_uploadSha256(k) ==
    /\ pub[k].pc = "uploadSha"
    /\ \/ /\ ReleaseExists(releases, pub[k].release)
          /\ releases' = WithAsset(releases, pub[k].release,
                                   Sha256Name(pub[k].lspVersion))
          /\ pub' = [pub EXCEPT
                       ![k].pc = "done",
                       ![k].files = {},
                       ![k].effects = PubEffect(k, "uploadSha256"),
                       ![k].out = [skipped |-> "", reason |-> <<>>,
                                   promoted |-> "false",
                                   releaseId |-> pub[k].release]]
          /\ UNCHANGED faults
       \/ /\ CanFault
          /\ pub' = [pub EXCEPT ![k] = PubFail(k, TRUE)]
          /\ faults' = faults + 1
          /\ UNCHANGED releases
    /\ UNCHANGED nextRelease
    /\ UNCHANGED outsidePromote

\* The releases a promote run may meet: for each tag at most one published
\* release, and possibly a draft.
ReleaseFor(id, tag, kind) ==
    [id |-> id, tag |-> tag, name |-> ReleaseName(tag),
     body |-> <<<<"Prerelease for LSP v", tag>>>>,
     prerelease |-> (kind = "prerelease"), draft |-> (kind = "draft"),
     assets |-> IF kind = "draft" THEN {}
                ELSE {TarballName(tag), Sha256Name(tag)}]

InitialReleaseSets ==
    {pub13 \cup dr13 \cup pub12 :
        pub13 \in {{}, {ReleaseFor(1, "1.3.0", "prerelease")},
                       {ReleaseFor(1, "1.3.0", "stable")}},
        dr13 \in {{}, {ReleaseFor(2, "1.3.0", "draft")}},
        pub12 \in {{}, {ReleaseFor(3, "1.2.0", "prerelease")}}}

InitPromote ==
    /\ releases \in InitialReleaseSets
    /\ nextRelease = 4
    /\ prs = {}
    /\ nextPr = 1
    /\ refs = [b \in UpdateBranches |-> NoCommit]
    /\ mainHead = 0
    /\ declared = Tree("1.3.0", "1.3.0", "1.3.0")
    /\ upstream = [version |-> "1.3.0", body |-> "notes 1.3.0"]
    /\ pathsExist = TRUE
    /\ up = [r \in Runs |-> IdleRun]
    /\ faults = 0
    /\ deletes = 0
    /\ raced = FALSE
    /\ changelogMd \in Changelogs
    /\ \/ \E v \in Variants \ {"from-scratch"} :
            pub = [k \in Promotes |-> [IdlePub EXCEPT !.variant = v]]
       \* the run of part_000 never reads the commit it was triggered for;
       \* its runs are re-runs for one commit, kept in author and message
       \/ \E author \in Authors, message \in Messages :
            pub = [k \in Promotes |->
                     [IdlePub EXCEPT !.variant = "from-scratch",
                                     !.author = author,
                                     !.message = message]]
    /\ clone = NoClone
    /\ cc = [i \in CommitRuns |-> IdleCommit]
    /\ kp = [k \in Keepers |-> IdleKeeper]
    /\ pushes = 0

NextPromote ==
    \/ \E k \in Promotes : publish_verifyLspUpdateCommit(k)
    \/ \E k \in Promotes : publish_eventGate(k)
    \/ \E k \in Promotes : publish_start(k)
    \/ \E k \in Promotes : publish_findPrerelease(k)
    \/ \E k \in Promotes : publish_promotePrerelease(k)
    \/ \E k \in Promotes : createReleaseFromScratch_buildLsp(k)
    \/ \E k \in Promotes : createReleaseFromScratch_createRelease(k)
    \/ \E k \in Promotes : createReleaseFromScratch_uploadTarball(k)
    \/ \E k \in Promotes : createReleaseFromScratch_uploadSha256(k)

SpecPromote == InitPromote /\ [][NextPromote]_vars

---------------------------------------------------------------------------
(* The update path under concurrent runs *)

InitialTree == Tree(InitialVersion, InitialVersion, InitialVersion)

Init ==
    /\ releases = {}
    /\ nextRelease = 1
    /\ prs = {}
    /\ nextPr = 1
    /\ refs = [b \in UpdateBranches |-> NoCommit]
    /\ mainHead = 0
    /\ declared = InitialTree
    /\ upstream \in {[version |-> v, body |-> "notes " \o v] : v \in UpstreamVersions}
    /\ pathsExist \in BOOLEAN
    /\ up = [r \in Runs |-> IdleRun]
    /\ faults = 0
    /\ deletes = MaxDeletes
    /\ raced = FALSE
    /\ changelogMd = NoChangelog
    /\ pub = [k \in Promotes |-> IdlePub]
    /\ clone = NoClone
    /\ cc = [i \in CommitRuns |-> IdleCommit]
    /\ kp = [k \in Keepers |-> IdleKeeper]
    /\ pushes = 0

Next ==
    \/ \E r \in Runs : run_checkForUpdate(r)
    \/ \E r \in Runs : run_buildLsp_commitChanges(r)
    \/ \E r \in Runs : createPrerelease_createRelease(r)
    \/ \E r \in Runs : createPrerelease_uploadTarball(r)
    \/ \E r \in Runs : createPrerelease_uploadSha256(r)
    \/ \E r \in Runs : createPullRequest_getRef(r)
    \/ \E r \in Runs : createPullRequest_push(r)
    \/ \E r \in Runs : createPullRequest_list(r)
    \/ \E r \in Runs : createPullRequest_write(r)
    \/ MergePr

Spec == Init /\ [][Next]_vars

\* The update path when the maintainer deletes releases by hand between the
\* steps of the runs (and no external call fails otherwise).
InitDelete ==
    /\ releases = {}
    /\ nextRelease = 1
    /\ prs = {}
    /\ nextPr = 1
    /\ refs = [b \in UpdateBranches |-> NoCommit]
    /\ mainHead = 0
    /\ declared = InitialTree
    /\ upstream \in {[version |-> v, body |-> "notes " \o v] : v \in UpstreamVersions}
    /\ pathsExist \in BOOLEAN
    /\ up = [r \in Runs |-> IdleRun]
    /\ faults = MaxFaults
    /\ deletes = 0
    /\ raced = FALSE
    /\ changelogMd = NoChangelog
    /\ pub = [k \in Promotes |-> IdlePub]
    /\ clone = NoClone
    /\ cc = [i \in CommitRuns |-> IdleCommit]
    /\ kp = [k \in Keepers |-> IdleKeeper]
    /\ pushes = 0

NextDelete == Next \/ DeleteRelease

SpecDelete == InitDelete /\ [][NextDelete]_vars

---------------------------------------------------------------------------
(* The Change Committer run repeatedly in one clone *)

InitCommit ==
    /\ releases = {}
    /\ nextRelease = 1
    /\ prs = {}
    /\ nextPr = 1
    /\ refs = [b \in UpdateBranches |-> NoCommit]
    /\ mainHead = 0
    /\ declared = InitialTree
    /\ upstream = [version |-> "1.3.0", body |-> "notes 1.3.0"]
    /\ pathsExist \in BOOLEAN
    /\ up = [r \in Runs |-> IdleRun]
    /\ faults = 0
    /\ deletes = MaxDeletes
    /\ raced = FALSE
    /\ changelogMd = NoChangelog
    /\ pub = [k \in Promotes |-> IdlePub]
    /\ \E lspDir \in {InitialVersion, "1.3.0"} :
         LET tree == Tree(InitialVersion, InitialVersion, lspDir)
         IN  \/ clone = [committer |-> "update-lsp", gitUserName |-> "",
                         head |-> TrunkCommit(0, tree), worktree |-> tree]
             \/ \E gitUserName \in GitUserNames :
                  clone = [committer |-> "build-lsp",
                           gitUserName |-> gitUserName,
                           head |-> TrunkCommit(0, tree), worktree |-> tree]
    /\ cc = [i \in CommitRuns |-> IdleCommit]
    /\ kp = [k \in Keepers |-> IdleKeeper]
    /\ pushes = 0

NextCommit ==
    \/ \E i \in CommitRuns : committer_build(i)
    \/ \E i \in CommitRuns : committer_commit(i)

SpecCommit == InitCommit /\ [][NextCommit]_vars

---------------------------------------------------------------------------
(* Rebase Keeper runs while the trunk and the branch move *)

UpdateCommit(version) ==
    [base |-> 0, ahead |-> 1, tree |-> Tree(version, version, version),
     sha |-> 1, author |-> AutomationIdentity,
     message |-> CommitMessage(version)]
UpdatePr(number, version, state) ==
    [number |-> number, branch |-> BranchName(version), state |-> state,
     title |-> PrTitle(version),
     body |-> PrBody(version, "notes " \o version, ReleaseUrl(1))]

InitRebase ==
    /\ \/ /\ prs \in {{}, {UpdatePr(1, "1.3.0", "closed")}}
          /\ refs = [b \in UpdateBranches |-> NoCommit]
       \/ /\ prs = {UpdatePr(1, "1.3.0", "open")}
          /\ refs = [b \in UpdateBranches |->
                       IF b = BranchName("1.3.0") THEN UpdateCommit("1.3.0")
                       ELSE NoCommit]
    \* the update run that opened the pull request published its prerelease
    /\ releases = IF prs = {} THEN {}
                  ELSE {ReleaseFor(1, "1.3.0", "prerelease")}
    /\ nextRelease = 2
    /\ nextPr = 2
    /\ mainHead = 0
    /\ declared = InitialTree
    /\ upstream = [version |-> "1.3.0", body |-> "notes 1.3.0"]
    /\ pathsExist = TRUE
    /\ up = [r \in Runs |-> IdleRun]
    /\ faults = 0
    /\ deletes = MaxDeletes
    /\ raced = FALSE
    /\ changelogMd = NoChangelog
    /\ pub = [k \in Promotes |-> IdlePub]
    /\ clone = NoClone
    /\ cc = [i \in CommitRuns |-> IdleCommit]
    /\ kp = [k \in Keepers |-> IdleKeeper]
    /\ pushes = 0

NextRebase ==
    \/ \E k \in Keepers : keeper_fetch(k)
    \/ \E k \in Keepers : keeper_findOpenLspUpdatePr(k)
    \/ \E k \in Keepers : keeper_mergeBase(k)
    \/ \E k \in Keepers : keeper_rebase(k)
    \/ \E k \in Keepers : keeper_push(k)
    \/ TrunkAdvance
    \/ ExternalPush

SpecRebase == InitRebase /\ [][NextRebase]_vars

---------------------------------------------------------------------------
(* getReleaseBody on its own: the runs of part_000 read the body first, on *)
(* a CHANGELOG.md drawn from documents with and without a title, a first   *)
(* section of 0..MaxSection lines of several shapes, and an older section. *)

MaxSection == 22    \* lines of the first section; above BodyLineCap

Shapes == {"items", "blank", "padded"}

SectionLine(shape, i, n) ==
    IF shape = "blank" THEN IF i % 2 = 0 THEN <<"">> ELSE <<" ">>
    ELSE IF shape = "items"
    THEN IF i = 1 THEN <<"### ", "Added">> ELSE <<"- item ", ToString(i)>>
    ELSE IF i = 1 THEN <<"">>
         ELSE IF i = n THEN <<"- item ", ToString(i), " ">>
         ELSE <<" ", "- item ", ToString(i)>>

Section(shape, n) == [i \in 1..n |-> SectionLine(shape, i, n)]

Titles == {<<>>, << <<"# Changelog">>, <<"All notable changes">> >>}
OlderSections == {<<>>, << <<"## ", "[1.2.0]">>, <<"- item old">> >>}

ChangelogDocs ==
    {NoChangelog}
    \cup {[readable |-> TRUE, lines |-> title \o Section(shape, n) \o older] :
            title \in Titles, shape \in Shapes, n \in 0..MaxSection,
            older \in OlderSections}
    \cup {[readable |-> TRUE,
           lines |-> title \o << <<"## ", "[1.3.0]">> >>
                       \o Section(shape, n) \o older] :
            title \in Titles, shape \in Shapes, n \in 0..MaxSection,
            older \in OlderSections}

InitReleaseBody ==
    /\ releases = {ReleaseFor(1, "1.3.0", "prerelease")}
    /\ nextRelease = 4
    /\ prs = {}
    /\ nextPr = 1
    /\ refs = [b \in UpdateBranches |-> NoCommit]
    /\ mainHead = 0
    /\ declared = Tree("1.3.0", "1.3.0", "1.3.0")
    /\ upstream = [version |-> "1.3.0", body |-> "notes 1.3.0"]
    /\ pathsExist = TRUE
    /\ up = [r \in Runs |-> IdleRun]
    /\ faults = 0
    /\ deletes = 0
    /\ raced = FALSE
    /\ changelogMd \in ChangelogDocs
    /\ pub = [k \in Promotes |->
                [IdlePub EXCEPT !.variant = "from-scratch",
                                !.author = AutomationIdentity,
                                !.message = CommitMessage("1.3.0")]]
    /\ clone = NoClone
    /\ cc = [i \in CommitRuns |-> IdleCommit]
    /\ kp = [k \in Keepers |-> IdleKeeper]
    /\ pushes = 0

NextReleaseBody == \E k \in Promotes : publish_start(k)

SpecReleaseBody == InitReleaseBody /\ [][NextReleaseBody]_vars

---------------------------------------------------------------------------
(* The publish-release run of src/unnamed/part_000 made again and again    *)
(* for one commit: a run starts when the run before it has ended.  The     *)
(* repository holds at most one release for each tag, a prerelease.        *)

\* the workflow is run again once its run before has ended
publish_rerun(k) ==
    /\ \A j \in Promotes : j < k => pub[j].pc = "done"
    /\ publish_start(k)

InitPublishTwice ==
    /\ releases \in {pre13 \cup pre12 :
                       pre13 \in {{}, {ReleaseFor(1, "1.3.0", "prerelease")}},
                       pre12 \in {{}, {ReleaseFor(3, "1.2.0", "prerelease")}}}
    /\ nextRelease = 4
    /\ prs = {}
    /\ nextPr = 1
    /\ refs = [b \in UpdateBranches |-> NoCommit]
    /\ mainHead = 0
    /\ declared = Tree("1.3.0", "1.3.0", "1.3.0")
    /\ upstream = [version |-> "1.3.0", body |-> "notes 1.3.0"]
    /\ pathsExist = TRUE
    /\ up = [r \in Runs |-> IdleRun]
    /\ faults = 0
    /\ deletes = 0
    /\ raced = FALSE
    /\ changelogMd \in Changelogs
    /\ \E author \in Authors, message \in Messages :
         pub = [k \in Promotes |->
                  [IdlePub EXCEPT !.variant = "from-scratch",
                                  !.author = author,
                                  !.message = message]]
    /\ clone = NoClone
    /\ cc = [i \in CommitRuns |-> IdleCommit]
    /\ kp = [k \in Keepers |-> IdleKeeper]
    /\ pushes = 0

NextPublishTwice ==
    \/ \E k \in Promotes : publish_rerun(k)
    \/ \E k \in Promotes : publish_findPrerelease(k)
    \/ \E k \in Promotes : publish_promotePrerelease(k)
    \/ \E k \in Promotes : createReleaseFromScratch_buildLsp(k)
    \/ \E k \in Promotes : createReleaseFromScratch_createRelease(k)
    \/ \E k \in Promotes : createReleaseFromScratch_uploadTarball(k)
    \/ \E k \in Promotes : createReleaseFromScratch_uploadSha256(k)

SpecPublishTwice == InitPublishTwice /\ [][NextPublishTwice]_vars

---------------------------------------------------------------------------
(* createPullRequest on its own: every run calls it with the same version, *)
(* changelog and prerelease url, on a repository where the pull request of *)
(* the version is not there yet, or is open with an edited or with the     *)
(* generated description.                                                  *)

EditedTitle == <<"edited by hand">>
Existing == {"none", "edited", "generated"}

InitPullRequest ==
    /\ \E version \in Versions \ {InitialVersion} :
       \E changelog \in {"notes " \o version, "Manual update to v" \o version} :
       \E existing \in Existing :
         LET branch == BranchName(version)
             body == PrBody(version, changelog, ReleaseUrl(1))
         IN  /\ releases = {[id |-> 1, tag |-> version,
                              name |-> ReleaseName(version),
                              body |-> <<<<"Prerelease for LSP v", version>>>>,
                              prerelease |-> TRUE, draft |-> FALSE,
                              assets |-> {TarballName(version),
                                          Sha256Name(version)}]}
             /\ prs = IF existing = "none" THEN {}
                      ELSE {[number |-> 1, branch |-> branch, state |-> "open",
                             title |-> IF existing = "edited" THEN EditedTitle
                                       ELSE PrTitle(version),
                             body |-> IF existing = "edited"
                                      THEN PrBody(version, "", ReleaseUrl(1))
                                      ELSE body]}
             /\ nextPr = IF existing = "none" THEN 1 ELSE 2
             /\ refs = [b \in UpdateBranches |->
                           IF b = branch /\ existing # "none"
                           THEN UpdateCommit(version) ELSE NoCommit]
             /\ up = [r \in Runs |->
                        [IdleRun EXCEPT
                           !.pc = "getRef",
                           !.check = [null |-> FALSE, needed |-> TRUE,
                                      version |-> version,
                                      changelog |-> changelog],
                           !.head = [UpdateCommit(version) EXCEPT !.sha = r],
                           !.committed = TRUE,
                           !.release = 1]]
    /\ nextRelease = 2
    /\ mainHead = 0
    /\ declared = InitialTree
    /\ upstream = [version |-> "1.3.0", body |-> "notes 1.3.0"]
    /\ pathsExist = TRUE
    /\ faults = 0
    /\ deletes = MaxDeletes
    /\ raced = FALSE
    /\ changelogMd = NoChangelog
    /\ pub = [k \in Promotes |-> IdlePub]
    /\ clone = NoClone
    /\ cc = [i \in CommitRuns |-> IdleCommit]
    /\ kp = [k \in Keepers |-> IdleKeeper]
    /\ pushes = 0

NextPullRequest ==
    \/ \E r \in Runs : createPullRequest_getRef(r)
    \/ \E r \in Runs : createPullRequest_push(r)
    \/ \E r \in Runs : createPullRequest_list(r)
    \/ \E r \in Runs : createPullRequest_write(r)

SpecPullRequest == InitPullRequest /\ [][NextPullRequest]_vars

---------------------------------------------------------------------------
(* Properties of the update path *)

Did(r, e) == \E i \in 1..Len(up[r].effects) : up[r].effects[i] = e
OpenPrsOn(branch) == {p \in OpenPrs(prs) : p.branch = branch}
ReleasesTagged(tag) == {x \in releases : x.tag = tag}

\* C1: a run whose version check ran while an open pull request on an
\* update-lsp-* branch existed got the skip sentinel, whatever the upstream
\* version, the declared version and the manual override were, ended with
\* updated=false and not failed, and built, committed, released, pushed and
\* wrote no pull request (a run whose lookup itself threw did none of these
\* either).
C1_SingleInFlightGuard ==
    \A r \in Runs :
        up[r].sawOpenPr =>
            /\ up[r].effects = <<>>
            /\ up[r].pc = "done"
            /\ ~up[r].injected =>
                   /\ up[r].check = NullCheck
                   /\ up[r].out.updated = "false"
                   /\ ~up[r].failed

\* C1 witness: a run with a manual override, started while upstream is
\* ahead of the declared version and an update pull request is open, skipped.
C1_Witness ==
    \E r \in Runs :
        /\ up[r].sawOpenPr
        /\ up[r].manual # ""
        /\ upstream.version # declared.lspRequired
        /\ up[r].out.updated = "false"
        /\ ~up[r].failed

\* C2 (as claimed): a createPrerelease invoked for a version whose tag
\* already has a prerelease record returns that record and leaves one
\* release for the tag.
C2_PrereleaseReuse ==
    \A r \in Runs :
        (up[r].tagHeld # 0 /\ ~up[r].injected) =>
            /\ ~up[r].failed
            /\ up[r].release = up[r].tagHeld
            /\ Cardinality(ReleasesTagged(Version(r))) <= 1

C5_AtMostOneInFlight == Cardinality(OpenLspUpdatePrs(prs)) <= 1

\* C5 (amended): as long as no update run has passed the in-flight check
\* while another run that passed it was still running, there is at most
\* one open pull request on a branch matching update-lsp-*.
C5_AtMostOneInFlightUnlessRaced ==
    ~raced => Cardinality(OpenLspUpdatePrs(prs)) <= 1

\* C5 witness: without any overlap, one run opened the pull request and a
\* later run with a manual override for another version skipped.
C5_Witness ==
    \E r, q \in Runs :
        /\ ~raced
        /\ up[q].out.updated = "true"
        /\ q \in up[r].prior
        /\ up[r].sawOpenPr
        /\ up[r].manual \notin {"", Version(q)}
        /\ up[r].pc = "done"
        /\ Cardinality(OpenLspUpdatePrs(prs)) = 1

\* C6 (as claimed): after a run for a version failed once its prerelease
\* was created and before its pull request was opened, a later run for that
\* version that finds no open update pull request (and meets no failure of
\* its own) ends with updated=true, one prerelease for the tag and one open
\* pull request on the branch.
C6_RerunAfterPartialFailure ==
    \A r, q \in Runs :
        ( /\ q \in up[r].prior
          /\ up[q].failed /\ Did(q, "createRelease") /\ ~Did(q, "createPr")
          /\ Version(q) = Version(r)
          /\ up[r].pc = "done"
          /\ up[r].check.needed
          /\ ~up[r].injected
          /\ pathsExist
          /\ mainHead = 0 )
        =>
          /\ up[r].out.updated = "true"
          /\ Cardinality({x \in ReleasesTagged(Version(r)) : x.prerelease}) = 1
          /\ Cardinality(OpenPrsOn(BranchName(Version(r)))) = 1

---------------------------------------------------------------------------
(* Claims about the promote path *)

PubDid(k, e) == \E i \in 1..Len(pub[k].effects) : pub[k].effects[i] = e
ReleaseMutated(k) ==
    \E e \in {"updateRelease", "createRelease", "uploadTarball", "uploadSha256"} :
        PubDid(k, e)
ContainsText(text, part) ==
    \E i \in 1..Len(text) :
        i + Len(part) - 1 <= Len(text) /\ SubSeq(text, i, i + Len(part) - 1) = part
AuthorMismatch(k) == pub[k].author # AutomationIdentity
MessageMismatch(k) == ~StartsWith(pub[k].message, MessagePrefix)
\* the runs whose triggering commit is known: the commit-gated run and the
\* run of part_000
OnCommit(k) ==
    /\ pub[k].variant \in {"commit-gate", "from-scratch"}
    /\ pub[k].pc # "idle"
    /\ ~pub[k].injected

\* C3: for every commit whose author is not the automation identity or whose
\* message does not start with the template, a promote-path run mutates no
\* release, ends skipped=true without failing, and its reason contains the
\* actual author, respectively the actual message.
C3_PromotionGate ==
    \A k \in Promotes :
        (OnCommit(k) /\ (AuthorMismatch(k) \/ MessageMismatch(k))) =>
            /\ ~ReleaseMutated(k)
            /\ pub[k].pc = "done" =>
                  /\ pub[k].out.skipped = "true"
                  /\ ~pub[k].failed
                  /\ AuthorMismatch(k) =>
                        Contains(pub[k].out.reason, pub[k].author)
                  /\ (~AuthorMismatch(k) /\ MessageMismatch(k)) =>
                        ContainsText(pub[k].out.reason, pub[k].message)

\* the gate of the run let it through to the release lookup
GatePassed(k) ==
    /\ PubDid(k, "listReleases")
    /\ pub[k].variant \in {"commit-gate", "from-scratch"} =>
          ~(AuthorMismatch(k) \/ MessageMismatch(k))

\* C7: when the promote path runs with the gate passed and no prerelease or
\* draft carries the declared version, the run builds the artifact and creates
\* a new stable release for that tag instead of skipping.
C7_FromScratchFallback ==
    \A k \in Promotes :
        (/\ pub[k].pc = "done"
         /\ ~pub[k].failed
         /\ GatePassed(k)
         /\ pub[k].found = NoRelease) =>
            /\ pub[k].out.skipped # "true"
            /\ PubDid(k, "build")
            /\ PubDid(k, "createRelease")
            /\ \E x \in releases :
                  /\ x.id = pub[k].release
                  /\ x.tag = pub[k].version
                  /\ ~x.prerelease
                  /\ ~x.draft

IsStable(x) == ~x.prerelease /\ ~x.draft
SelectedForPromotion(k) == pub[k].seen
OnlyPrereleasesSelected ==
    \A k \in Promotes :
        /\ pub[k].found # NoRelease => SelectedForPromotion(k) # {}
        /\ \A x \in SelectedForPromotion(k) :
              /\ x.prerelease \/ x.draft
              /\ x.tag = pub[k].version
              /\ x.id = pub[k].found.id
StableStaysStable ==
    \A x \in releases :
        IsStable(x) => \E y \in releases' : y.id = x.id /\ IsStable(y)

\* C8: a promote run only selects, as the target of its update, a release
\* that is a prerelease or a draft and carries the declared version, never one
\* that is stable when selected; and a stable release never returns to the
\* prerelease or draft state.
C8_NoDoublePromotion == []OnlyPrereleasesSelected /\ [][StableStaysStable]_vars

\* a run has promoted a release and a later lookup, with that release stable
\* under the declared tag, selected nothing
C8_Witness ==
    \E k, j \in Promotes :
        /\ k # j
        /\ PubDid(k, "updateRelease")
        /\ pub[j].pc = "done"
        /\ PubDid(j, "listReleases")
        /\ pub[j].found = NoRelease
        /\ \E x \in releases :
              x.id = pub[k].release /\ IsStable(x) /\ x.tag = pub[j].version
---------------------------------------------------------------------------
(* Claims about the Change Committer and the Rebase Keeper *)

\* C9: two Change Committer runs in succession on identical build output
\* and manifest edits for one version, the first of which finds changes,
\* make exactly one commit in total; the second run reports no changes and
\* makes no commit.
C9_IdempotentCommit ==
    \A i, j \in CommitRuns :
        ( /\ j = i + 1
          /\ cc[i].pc = "done" /\ cc[j].pc = "done"
          /\ ~cc[i].failed /\ ~cc[j].failed
          /\ cc[i].version = cc[j].version
          /\ cc[i].changed )
        =>
          /\ cc[i].made + cc[j].made = 1
          /\ cc[j].committed = "false"
          /\ cc[j].made = 0

KeeperDid(k, e) == \E i \in 1..Len(kp[k].effects) : kp[k].effects[i] = e
FoundUpToDate(k) ==
    /\ kp[k].pr # NoPr
    /\ kp[k].mainHead # -1
    /\ kp[k].mergeBase = kp[k].mainHead

\* C10: a Rebase Keeper run that found an open update pull request whose
\* merge base with the trunk tip is the trunk tip runs no rebase and no
\* push, leaves the remote branch as it is, and ends with rebased=false.
C10_RebaseNoOp ==
    \A k \in Keepers :
        FoundUpToDate(k) =>
            /\ kp[k].pc = "done"
            /\ ~kp[k].failed
            /\ kp[k].out.rebased = "false"
            /\ kp[k].effects = <<>>
            /\ kp[k].head = NoCommit

\* a run rebased the branch onto the advanced trunk and pushed it; a later
\* run found the branch up to date and did nothing
C10_Witness ==
    \E j, k \in Keepers :
        /\ j # k
        /\ KeeperDid(j, "push")
        /\ FoundUpToDate(k)
        /\ kp[k].mainHead >= 1
        /\ kp[k].pr.headSha = kp[j].head
        /\ refs[kp[k].pr.branch] = kp[j].head
        /\ kp[k].out.rebased = "false"

ConflictHandled ==
    \A k \in Keepers :
        KeeperDid(k, "abort") =>
            /\ kp[k].pc = "done"
            /\ ~kp[k].failed
            /\ kp[k].out.rebased = "false"
            /\ kp[k].out.error # ""
            /\ ~KeeperDid(k, "push")
            /\ ~KeeperDid(k, "pushRejected")
ConflictStepKeepsRemote ==
    \A k \in Keepers :
        (kp[k].pc = "rebase" /\ kp'[k].pc # "rebase") => refs' = refs

\* C11: when the replay of the branch onto the trunk tip fails, the Rebase
\* Keeper aborts the rebase, never pushes, leaves the remote branch ref as
\* it is, and ends with rebased=false and a non-empty error, not failed.
C11_ConflictRecovery == []ConflictHandled /\ [][ConflictStepKeepsRemote]_vars

\* a run met a conflict while the trunk had advanced; the branch is still
\* where the run read it
C11_Witness ==
    \E k \in Keepers :
        /\ KeeperDid(k, "abort")
        /\ kp[k].mainHead >= 1
        /\ refs[kp[k].pr.branch] = kp[k].pr.headSha
        /\ kp[k].out.error = ConflictMessage

PushAttempts(k) ==
    Cardinality({i \in 1..Len(kp[k].effects) :
                    kp[k].effects[i] \in {"push", "pushRejected"}})
\* the step of run k that pushes while the branch is no longer where the
\* run read it
PushAfterMove(k) ==
    /\ kp[k].pc = "push"
    /\ kp'[k].pc # "push"
    /\ refs[kp[k].pr.branch] # kp[k].pr.headSha
MovedTipPreserved ==
    \A k \in Keepers :
        PushAfterMove(k) =>
            /\ refs' = refs
            /\ kp'[k].pc = "done"
            /\ kp'[k].out.rebased = "false"
            /\ kp'[k].out.error # ""
            /\ PushAttempts(k) = 0

\* C12: when the remote branch tip has changed between the run's reading of
\* the pull request head and its push, the push fails, the tip the other
\* actor wrote stays, the run reports rebased=false with an error reason,
\* and it pushes once only.
C12_ConditionalPush == [][MovedTipPreserved]_vars

\* a run's push was rejected because the branch had been moved, by another
\* actor or by another run, after the run had read it
C12_Witness ==
    \E k \in Keepers :
        /\ KeeperDid(k, "pushRejected")
        /\ ~kp[k].injected
        /\ kp[k].pc = "done"
        /\ refs[kp[k].pr.branch] # kp[k].pr.headSha
        /\ refs[kp[k].pr.branch] # kp[k].head
        /\ kp[k].out.rebased = "false"

LaterSteps == {"commit", "createRelease", "uploadTarball", "uploadSha256",
               "push", "createPr", "updatePr"}

BuildFailureContained ==
    \A r \in Runs : Did(r, "buildFailed") =>
        /\ up[r].pc = "done"
        /\ up[r].failed
        /\ ~up[r].committed
        /\ up[r].head = TrunkCommit(up[r].head.base, up[r].head.tree)
        /\ up[r].release = 0
        /\ up[r].out = NoOutputs
        /\ \A e \in LaterSteps : ~Did(r, e)

BuildFailureStep ==
    \A r \in Runs :
        (up[r].pc = "build" /\ Did(r, "buildFailed")') =>
            UNCHANGED <<releases, nextRelease, prs, nextPr, refs>>

\* C13: a run of the update path whose build threw (a failed command, a
\* missing dist/, an empty lsp/) ended failed with none of the later steps
\* done: its head is still the trunk commit it started from, it made no
\* commit and no release, uploaded no asset, pushed no
\* branch, created or updated no pull request, and the failing step changed
\* no release, pull request or branch.
C13_BuildFailureContained ==
    []BuildFailureContained /\ [][BuildFailureStep]_vars

C13_Witness ==
    \E r \in Runs :
        /\ Did(r, "buildFailed")
        /\ up[r].check.needed
        /\ up[r].failed
        /\ up[r].pc = "done"


BothAssets(x, version) ==
    {TarballName(version), Sha256Name(version)} \subseteq x.assets

\* C14: when a run is over, failed or not, the release it created (the
\* prerelease of an update run, the stable release of a from-scratch run)
\* carries both the tarball and the checksum.
C14_NoHalfWrittenAssets ==
    /\ \A r \in Runs :
          (up[r].pc = "done" /\ Did(r, "createRelease")) =>
              \A x \in releases :
                  x.id = up[r].release => BothAssets(x, Version(r))
    /\ \A k \in Promotes :
          (pub[k].pc = "done" /\ PubDid(k, "createRelease")) =>
              \A x \in releases :
                  x.id = pub[k].release => BothAssets(x, pub[k].lspVersion)


PastPublishStep(r) == up[r].pc \in {"getRef", "push", "listPrs", "writePr", "done"}

\* C15: once createPrerelease is over, by a return or by an exception, the
\* .tar.gz and the .sha256 it wrote to the working directory are gone.
C15_ScopedCleanup ==
    \A r \in Runs : PastPublishStep(r) => up[r].files = {}


---------------------------------------------------------------------------
(* Properties of the outputs *)

Mutated(r) == \E e \in LaterSteps : Did(r, e)

\* the update path's two gates: an open update pull request, nothing new
\* upstream
UpdateSkipped(r) ==
    /\ up[r].pc = "done"
    /\ ~up[r].injected
    /\ up[r].check.null \/ ~up[r].check.needed

\* the promote path's gates: the commit, the event, the missing prerelease
PromoteSkipped(k) == pub[k].pc = "done" /\ pub[k].out.skipped = "true"

\* C16: a run that a gate stopped is not failed, has mutated no release,
\* branch or pull request, and has a non-empty reason output.
C16_GateSkipOutcome ==
    /\ \A r \in Runs :
          UpdateSkipped(r) =>
              ~up[r].failed /\ ~Mutated(r) /\ up[r].out.reason # <<>>
    /\ \A k \in Promotes :
          PromoteSkipped(k) =>
              ~pub[k].failed /\ ~ReleaseMutated(k) /\ pub[k].out.reason # <<>>


---------------------------------------------------------------------------
(* Properties across the components *)

\* C17: every commit the Change Committer has made carries the title of
\* its version and passes the Commit Verifier (author and message).
C17_CommitterVerifierContract ==
    clone.head.ahead > 0 =>
        /\ \E version \in Versions : clone.head.message = CommitMessage(version)
        /\ verifyLspUpdateCommit(clone.head.author, clone.head.message).isValid


\* the step in which run r makes its version check, with no update pull
\* request open and no lookup throwing
ChecksWithNoOpenPr(r) ==
    /\ up[r].pc = "idle"
    /\ up'[r].pc # "idle"
    /\ ~up'[r].injected
    /\ OpenLspUpdatePrs(prs) = {}

VersionDecision ==
    \A r \in Runs : ChecksWithNoOpenPr(r) =>
        LET M == up'[r].manual
            check == up'[r].check
        IN  IF M # ""
            THEN /\ ~check.null /\ check.needed /\ check.version = M
                 /\ ~up'[r].lookedUp
                 /\ up'[r].pc = "build"
            ELSE IF upstream.version = declared.lspRequired
            THEN /\ ~check.null /\ ~check.needed
                 /\ up'[r].lookedUp
                 /\ up'[r].pc = "done"
                 /\ up'[r].out.updated = "false"
            ELSE /\ ~check.null /\ check.needed
                 /\ check.version = upstream.version
                 /\ check.changelog = upstream.body
                 /\ up'[r].lookedUp
                 /\ up'[r].pc = "build"

\* C18: with no update pull request open, the version check of a run with
\* a manual version M answers needed with version M and does not ask
\* upstream; without one it asks upstream and answers not needed when the
\* latest version is the declared one, needed with the latest version and
\* upstream's changelog body when it is not.
C18_VersionOracle == [][VersionDecision]_vars

\* C18 witness: a run with a manual version that did not ask upstream, next
\* to a run without one that took upstream's newer version and changelog.
C18_Witness ==
    \E r, q \in Runs :
        /\ ~up[r].sawOpenPr /\ ~up[r].injected
        /\ up[r].manual # "" /\ up[r].check.version = up[r].manual
        /\ ~up[r].lookedUp
        /\ ~up[q].sawOpenPr /\ ~up[q].injected
        /\ up[q].manual = "" /\ up[q].lookedUp
        /\ up[q].check.needed
        /\ up[q].check.version = upstream.version
        /\ up[q].check.changelog = upstream.body


Numbers(P) == {p.number : p \in P}

\* pulls.list of a run finds the pull request that is open on its branch
ListFindsOpenPr(r) ==
    (up[r].pc = "listPrs" /\ up'[r].pc = "writePr"
        /\ OpenPrsOn(BranchName(Version(r))) # {}) =>
            up'[r].existingPr \in Numbers(OpenPrsOn(BranchName(Version(r))))

\* the write of a run that found one updates it in place
WritesInPlace(r) ==
    (up[r].pc = "writePr" /\ up'[r].pc # "writePr"
        /\ up[r].existingPr # 0 /\ ~up'[r].failed) =>
        LET title == PrTitle(Version(r))
            body == PrBody(Version(r), up[r].check.changelog,
                           ReleaseUrl(up[r].release))
        IN  /\ Numbers(prs') = Numbers(prs)
            /\ nextPr' = nextPr
            /\ up'[r].out.prNumber = up[r].existingPr
            /\ \A p \in prs' : p.number = up[r].existingPr =>
                   /\ p.branch = BranchName(Version(r))
                   /\ p.state = "open"
                   /\ p.title = title
                   /\ p.body = body
            /\ (\A p \in prs : p.number = up[r].existingPr =>
                    p.title = title /\ p.body = body) => prs' = prs

NoSecondPr ==
    \A b \in UpdateBranches :
        OpenPrsOn(b) # {} => Numbers(prs') = Numbers(prs)

\* C19: createPullRequest called again with the same version, changelog
\* and prerelease url while the pull request of update-lsp-<version> is
\* open finds that pull request, writes the same title and body to it (a
\* second write changes nothing), returns its number, and no call adds a
\* pull request.
C19_PullRequestIdempotence ==
    [][NoSecondPr /\ \A r \in Runs : ListFindsOpenPr(r) /\ WritesInPlace(r)]_vars

\* C19 witness: one call created the pull request, the next one updated it
\* and returned the same number; one pull request exists.
C19_Witness ==
    \E r, q \in Runs :
        /\ Did(r, "createPr") /\ Did(q, "updatePr")
        /\ ~up[r].failed /\ ~up[q].failed
        /\ up[r].out.prNumber = up[q].out.prNumber
        /\ Cardinality(prs) = 1
        /\ \A p \in prs : p.title = PrTitle(Version(q))


KeeperStep(k) == kp'[k] # kp[k]

\* what a step of run k may change on the remote: the tip of the branch of
\* the open pull request it found
OnlyPrBranchMoves(k) ==
    \A b \in UpdateBranches :
        refs'[b] # refs[b] =>
            /\ b = kp[k].pr.branch
            /\ \E p \in OpenLspUpdatePrs(prs) :
                   p.number = kp[k].pr.number /\ p.branch = b

KeeperFrame ==
    \A k \in Keepers : KeeperStep(k) =>
        /\ releases' = releases
        /\ nextRelease' = nextRelease
        /\ prs' = prs
        /\ nextPr' = nextPr
        /\ mainHead' = mainHead
        /\ declared' = declared
        /\ OnlyPrBranchMoves(k)

\* C20: no step of a Rebase Keeper run creates, updates or deletes a
\* release, creates, closes or edits a pull request, or moves the trunk;
\* the only remote ref a step may move is the branch of the open pull
\* request the run found, whose number and branch name stay as they were.
C20_RebaseSelfLoop == [][KeeperFrame]_vars

\* C20 witness: a run rebased and pushed; the pull request is the same
\* open one, on the same branch, next to the same prerelease, and only the
\* tip of its branch is new.
C20_Witness ==
    \E k \in Keepers :
        /\ KeeperDid(k, "push")
        /\ refs[kp[k].pr.branch] = kp[k].head
        /\ kp[k].head # kp[k].pr.headSha
        /\ prs = {UpdatePr(kp[k].pr.number, "1.3.0", "open")}
        /\ releases = {ReleaseFor(1, "1.3.0", "prerelease")}
        /\ mainHead = kp[k].mainHead


\* the push of run k, made with the branch where the run read it and with
\* the remote reachable
PushOnUnmovedBranch(k) ==
    /\ kp[k].pc = "push"
    /\ kp'[k].pc # "push"
    /\ ~kp'[k].injected
    /\ refs[kp[k].pr.branch] = kp[k].pr.headSha

RebasePushed ==
    \A k \in Keepers : PushOnUnmovedBranch(k) =>
        LET branch == kp[k].pr.branch
        IN  /\ kp[k].mergeBase # kp[k].mainHead
            /\ refs'[branch] = kp'[k].head
            /\ refs'[branch] # refs[branch]
            /\ refs'[branch].base = kp[k].mainHead
            /\ refs'[branch].ahead = kp[k].pr.headSha.ahead
            /\ refs'[branch].tree = kp[k].pr.headSha.tree
            /\ \A b \in UpdateBranches \ {branch} : refs'[b] = refs[b]
            /\ prs' = prs
            /\ kp'[k].pc = "done"
            /\ ~kp'[k].failed
            /\ kp'[k].out = [found |-> "true", prNumber |-> kp[k].pr.number,
                             branch |-> branch, rebased |-> "true",
                             error |-> ""]

RebasedOnlyAfterPush ==
    \A k \in Keepers : KeeperDid(k, "push") =>
        /\ kp[k].out.rebased = "true"
        /\ kp[k].out.error = ""
        /\ kp[k].head.base = kp[k].mainHead

\* C21: a run that found the open pull request behind the trunk tip it
\* fetched, whose replay succeeded and whose branch is still where it read
\* it, pushes the replayed commits to that branch: the new tip sits on the
\* fetched trunk tip with the same commits, no other branch and no pull
\* request changes, and the run ends rebased=true with an empty error and
\* the number and the branch of the pull request it found.
C21_RebaseSuccess == [][RebasePushed]_vars /\ []RebasedOnlyAfterPush

C21_Witness ==
    \E k \in Keepers :
        /\ KeeperDid(k, "push")
        /\ kp[k].out.rebased = "true"
        /\ kp[k].mergeBase = 0
        /\ kp[k].mainHead = 1
        /\ refs[kp[k].pr.branch].base = 1
        /\ refs[kp[k].pr.branch].ahead >= 1
        /\ kp[k].out.prNumber = 1


---------------------------------------------------------------------------
(* Properties of a whole update run *)

\* run r ran alone, without a manual version, from declared 1.2.0 with
\* 1.3.0 upstream, no update pull request open and no release, and no
\* external call of it failed
AloneFrom120To130(r) ==
    /\ up[r].pc = "done"
    /\ ~up[r].injected
    /\ up[r].manual = ""
    /\ ~up[r].sawOpenPr
    /\ up[r].prior = {}
    /\ \A q \in Runs \ {r} : up[q].pc = "idle"
    /\ upstream.version = "1.3.0"
    /\ mainHead = 0
    /\ declared = InitialTree

FullUpdateDone(r) ==
    /\ ~up[r].failed
    /\ up[r].out.updated = "true"
    /\ up[r].out.version = "1.3.0"
    /\ up[r].committed
    /\ up[r].head.base = 0 /\ up[r].head.ahead = 1
    /\ \E x \in releases :
          /\ releases = {x}
          /\ x.tag = "1.3.0" /\ x.prerelease /\ ~x.draft
    /\ \E p \in prs :
          /\ prs = {p}
          /\ p.state = "open" /\ p.branch = BranchName("1.3.0")
          /\ p.number = up[r].out.prNumber
    /\ refs[BranchName("1.3.0")] = up[r].head

\* C22: an update run that ran alone from declared 1.2.0 with 1.3.0
\* upstream, no open update pull request and no release ended with
\* updated=true, one new commit, one release tagged 1.3.0 that is a
\* prerelease and not a draft, and one open pull request, on
\* update-lsp-1.3.0.
C22_FullUpdatePath ==
    \A r \in Runs : AloneFrom120To130(r) => FullUpdateDone(r)


\* in run r every b comes after an a
Before(r, a, b) ==
    \A j \in 1..Len(up[r].effects) :
        up[r].effects[j] = b => \E i \in 1..(j - 1) : up[r].effects[i] = a

\* in run r no a comes after a b
NeverAfter(r, a, b) ==
    \A i, j \in 1..Len(up[r].effects) :
        (up[r].effects[i] = b /\ up[r].effects[j] = a) => j < i

Times(r, E) ==
    Cardinality({i \in 1..Len(up[r].effects) : up[r].effects[i] \in E})

StepOrder ==
    \A r \in Runs :
        /\ Before(r, "build", "createRelease")
        /\ NeverAfter(r, "commit", "createRelease")
        /\ Did(r, "createRelease") => (up[r].committed <=> Did(r, "commit"))
        /\ Before(r, "createRelease", "uploadTarball")
        /\ Before(r, "uploadTarball", "uploadSha256")
        /\ Before(r, "uploadSha256", "push")
        /\ Before(r, "push", "createPr")
        /\ Before(r, "push", "updatePr")
        /\ Times(r, {"createRelease"}) <= 1
        /\ Times(r, {"uploadTarball"}) <= 1
        /\ Times(r, {"uploadSha256"}) <= 1
        /\ Times(r, {"push"}) <= 1
        /\ Times(r, {"createPr", "updatePr"}) <= 1

\* the step of run (lines 349-361) that a position of the run belongs to
StepOf(pc) ==
    IF pc \in {"release", "uploadTar", "uploadSha"} THEN "createPrerelease"
    ELSE IF pc \in {"getRef", "push", "listPrs", "writePr"}
    THEN "createPullRequest"
    ELSE pc

\* a step of run r changes releases only inside createPrerelease, and refs
\* and pull requests only inside createPullRequest
OneStepPerResource ==
    \A r \in Runs : up'[r] # up[r] =>
        /\ releases' # releases => StepOf(up[r].pc) = "createPrerelease"
        /\ refs' # refs => up[r].pc = "push"
        /\ prs' # prs => up[r].pc = "writePr"

\* C23: in every update run the release is created after a successful
\* build and after the commit step, the branch is pushed after the release
\* and both of its assets, the pull request is created or updated after
\* the push, and each call is made once: the release is written by
\* createPrerelease only, the branch and the pull request by
\* createPullRequest only.
C23_StepOrdering == []StepOrder /\ [][OneStepPerResource]_vars

C23_Witness ==
    \E r \in Runs :
        up[r].effects = <<"build", "commit", "createRelease", "uploadTarball",
                          "uploadSha256", "push", "createPr">>


---------------------------------------------------------------------------
(* Properties of the event gate *)

OnEvent(k) == pub[k].variant = "event-gate" /\ pub[k].pc # "idle"

FromMergedUpdatePr(k) ==
    /\ pub[k].event = "pull_request"
    /\ pub[k].merged
    /\ StartsWith(pub[k].headRef, BranchPrefix)

EventGate ==
    \A k \in Promotes : OnEvent(k) =>
        /\ (pub[k].event = "pull_request" /\ ReleaseMutated(k)) =>
               FromMergedUpdatePr(k)
        /\ (~FromMergedUpdatePr(k) /\ pub[k].event # "workflow_dispatch") =>
               /\ pub[k].pc = "done"
               /\ ~pub[k].failed
               /\ pub[k].out.skipped = "true"
               /\ pub[k].out.reason # <<>>
               /\ pub[k].effects = <<>>

\* C24: a promote run on a pull_request event updates a release only when
\* the pull request was merged and its head branch starts with
\* update-lsp-; on an unmerged pull request, on one merged from another
\* branch and on an event other than pull_request and workflow_dispatch
\* the run ends skipped=true with a reason and has made no call on a
\* release.
C24_EventGate == []EventGate

\* C24 witness: one run promoted for a merged update-lsp-1.3.0 pull
\* request, another skipped a merged pull request of feature/update-lsp-1.3.0.
C24_Witness ==
    \E k, j \in Promotes :
        /\ OnEvent(k) /\ FromMergedUpdatePr(k) /\ PubDid(k, "updateRelease")
        /\ pub[k].out.promoted = "true"
        /\ OnEvent(j) /\ pub[j].event = "pull_request" /\ pub[j].merged
        /\ Contains(pub[j].headRef, BranchPrefix)
        /\ pub[j].out.skipped = "true"


---------------------------------------------------------------------------
(* Properties of getReleaseBody *)

HeadingAt(doc) ==
    {i \in 1..Len(doc.lines) : StartsWith(doc.lines[i], "## ")}
Least(S) == CHOOSE i \in S : \A j \in S : i <= j
\* the lines strictly between the first heading and the next one
FirstSection(doc) ==
    IF ~doc.readable \/ HeadingAt(doc) = {} THEN {}
    ELSE LET first == Least(HeadingAt(doc))
             later == {i \in HeadingAt(doc) : i > first}
             next == IF later = {} THEN Len(doc.lines) + 1 ELSE Least(later)
         IN  {i \in 1..Len(doc.lines) : first < i /\ i < next}

\* what the extraction keeps of the section: its first 20 lines
Extraction(doc) ==
    {i \in FirstSection(doc) :
        Cardinality({j \in FirstSection(doc) : j <= i}) <= 20}

\* a line of the result is a line of the document; the result as a whole
\* is trimmed, which shows at the start of its first and at the end of
\* its last line
SameLine(r, line, atStart, atEnd) ==
    \/ r = line
    \/ atStart /\ r = StripLeft(line)
    \/ atEnd /\ r = StripRight(line)
    \/ atStart /\ atEnd /\ r = StripLeft(StripRight(line))

BodyFromFirstSection(k) ==
    LET doc == changelogMd
        body == pub[k].body
        fallback == << <<"Release v", pub[k].version>> >>
    IN  /\ Len(body) <= 20
        /\ body # fallback =>
               \A j \in 1..Len(body) :
                   \E i \in FirstSection(doc) :
                       SameLine(body[j], doc.lines[i], j = 1, j = Len(body))
        /\ (\A i \in Extraction(doc) :
                \A t \in 1..Len(doc.lines[i]) : doc.lines[i][t] \in {"", " "})
              => body = fallback

\* C25: the body read from CHANGELOG.md has at most 20 lines, each of them
\* a line strictly between the first "## " heading and the next one, and
\* is the fallback "Release v<version>" when the file cannot be read, has
\* no heading, or the extraction is empty or white space only.
C25_ReleaseBodyExtraction ==
    \A k \in Promotes :
        (pub[k].variant = "from-scratch" /\ pub[k].pc = "find") =>
            BodyFromFirstSection(k)

\* C25 witness: a first section longer than the cap, after a title and
\* before an older section, read as 20 lines.
C25_Witness ==
    \E k \in Promotes :
        /\ pub[k].variant = "from-scratch" /\ pub[k].pc = "find"
        /\ Cardinality(FirstSection(changelogMd)) > 20
        /\ Cardinality(HeadingAt(changelogMd)) = 2
        /\ Least(HeadingAt(changelogMd)) > 1
        /\ Len(pub[k].body) = 20


---------------------------------------------------------------------------
(* Properties of the pushes *)

\* the commit was made by an update run that started after run r did
\* (runs start in the order of their ids, and a commit carries its run)
WrittenSince(r, c) == c.ahead > 0 /\ c.sha \in Runs /\ c.sha > r

\* the push of run r throws away the tip it finds
Discards(r) ==
    LET branch == BranchName(Version(r))
    IN  /\ up[r].pc = "push"
        /\ up'[r].pc # "push"
        /\ refs'[branch] # refs[branch]
        /\ refs[branch] # NoCommit
        /\ refs[branch].ahead > 0

\* C26 (as claimed): the push of an update run never throws away a branch
\* tip that another run wrote while the pushing run was under way.
C26_NoLostPush ==
    [][\A r \in Runs :
          Discards(r) => ~WrittenSince(r, refs[BranchName(Version(r))])]_vars


\* C26: an update run throws away a branch tip only by its forced push,
\* made when getRef found the branch; its plain push to a branch it did
\* not find is rejected when commits of another history are there by then.
C26_DiscardOnlyByForcedPush ==
    [][\A r \in Runs : Discards(r) => up[r].branchExists]_vars

\* C26 witness: the forced push of a run replaced the tip that a run
\* started later had pushed for the same version.
C26_Witness ==
    \E r, q \in Runs :
        /\ q > r
        /\ Version(q) = Version(r)
        /\ Did(q, "push") /\ up[q].committed
        /\ Did(r, "push") /\ up[r].branchExists
        /\ refs[BranchName(Version(r))] = up[r].head
        /\ up[r].head # up[q].head


---------------------------------------------------------------------------
(* The update path and the promote path agree on the tag *)

\* run r ended with an update pull request, and that one was merged
MergedUpdateOf(r) ==
    /\ up[r].pc = "done" /\ ~up[r].failed
    /\ up[r].out.updated = "true"
    /\ \E p \in prs : p.number = up[r].out.prNumber /\ p.state = "merged"

\* what the promoter does first on the merged trunk: it reads the version
\* from extension.toml and looks the prerelease up under it
PromoterFinds == findPrerelease(releases, declared.version)

TagAgreement(r) ==
    /\ declared.version = Version(r)
    /\ PromoterFinds # NoRelease
    /\ PromoterFinds.tag = Version(r)
    /\ PromoterFinds.id = up[r].release

\* C27: when the pull request of an update run for version V is merged,
\* the version declared on the trunk is V and the promoter's lookup under
\* it returns the prerelease that the run published for V.
C27_TagAgreement ==
    [][\A r \in Runs :
          ~MergedUpdateOf(r) /\ MergedUpdateOf(r)' => TagAgreement(r)']_vars

\* C27 witness: the pull request of an update run was merged
C27_Witness == \E r \in Runs : MergedUpdateOf(r) /\ TagAgreement(r)


---------------------------------------------------------------------------
(* Publishing a release twice *)

StableFor(tag) == {x \in releases : x.tag = tag /\ ~x.prerelease /\ ~x.draft}

OneStableRelease ==
    /\ Cardinality(StableFor(declared.version)) = 1
    /\ Cardinality({x \in releases : x.tag = declared.version}) = 1

\* the first publish run ended well
FirstPublished ==
    /\ pub[1].pc = "done" /\ ~pub[1].failed
    /\ pub[1].out.promoted = "true"

\* the second run has ended, with every external call answering
SecondPublished == pub[2].pc = "done" /\ ~pub[2].injected

SecondIsNoOp == ~pub[2].failed /\ OneStableRelease

\* C28: a publish run made after a publish run for the same declared
\* version has ended well leaves one stable release for the tag, creates
\* no second release for it and does not end as a failure.
C28_PublishTwice == FirstPublished /\ SecondPublished => SecondIsNoOp

---------------------------------------------------------------------------
(* What a Rebase Keeper run reports *)

\* run k found an open update pull request, saw its branch behind the
\* trunk, replayed it without a conflict and had its push accepted
RebaseWentThrough(k) ==
    /\ ~kp[k].failed
    /\ kp[k].pr # NoPr /\ kp[k].out.found = "true"
    /\ kp[k].mergeBase # kp[k].mainHead
    /\ KeeperDid(k, "rebase") /\ ~KeeperDid(k, "abort")
    /\ KeeperDid(k, "push") /\ ~KeeperDid(k, "pushRejected")

Reported(k) ==
    /\ kp[k].out.rebased \in {"true", "false"}
    /\ kp[k].out.rebased = "true" <=> RebaseWentThrough(k)

\* C29: every Rebase Keeper run that has ended has set the rebased output,
\* to true when it found an open update pull request, saw that a rebase
\* was needed, and both the rebase and the push succeeded, and to false on
\* every other path.
C29_RebasedOutput == \A k \in Keepers : kp[k].pc = "done" => Reported(k)

\* C29 witness: one run ended with rebased=true and one with rebased=false
\* after its push was rejected
C29_Witness ==
    \E k, j \in Keepers :
        /\ kp[k].pc = "done" /\ kp[k].out.rebased = "true"
        /\ kp[j].pc = "done" /\ kp[j].out.rebased = "false"
        /\ KeeperDid(j, "pushRejected")

====
